---------------------------- MODULE Spec2Model ----------------------------
(***************************************************************************)
(* Model of the p8fs-node content processing engine (Healer-AI/p8fs,       *)
(* p8fs-node/rust/p8fs-node): the five content providers and their         *)
(* process_content composition, the provider registry, the chunkers of     *)
(* each format (sliding window, headings, JSON tree, audio segments) and   *)
(* the shared embedding service.                                           *)
(*                                                                         *)
(* The specifications share the variables below; each one drives one       *)
(* group of variables and leaves the others at their initial value.        *)
(*   Spec         tasks calling the ContentProvider operations on files    *)
(*                while the files are written and removed                  *)
(*   SpecRegistry threads racing on the lazily built REGISTRY and looking  *)
(*                providers up by content type and by extension            *)
(*   SpecLookup   one thread looking up every spelling of every supported  *)
(*                extension, extensions outside the table, and every       *)
(*                content type                                             *)
(*   SpecChunk    the loop of chunk_text, one iteration per step, for      *)
(*                every text and every chunk_size > overlap >= 0 within    *)
(*                the bounds                                               *)
(*   SpecMarkdown MarkdownProvider: extract_sections over the parser       *)
(*                events of every document of up to MaxBlocks blocks       *)
(*   SpecJson     JsonProvider: extract_chunks over every value nested up  *)
(*                to MaxDepth                                              *)
(*   SpecAudio    AudioProvider: the loop of segment_audio                 *)
(*   SpecFormats  to_markdown_chunks of all five providers, up to the      *)
(*                returned Vec<ContentChunk>                               *)
(*   SpecEmbed    tasks calling embed through EmbeddingService::global;    *)
(*                SpecEmbedFair adds fair scheduling of the calls          *)
(*   SpecToEmbeddings  to_embeddings on the chunks a provider returned     *)
(*   SpecIndependence  the provider operations beside a failed or busy     *)
(*                embedding service                                        *)
(*   SpecUpload   two requests running the upload handlers of              *)
(*                api/content.rs on the shared staging directory           *)
(*   SpecMarkdownMetadata  SpecMarkdown followed by to_metadata             *)
(*   SpecChunkFair, SpecAudioFair  SpecChunk and SpecAudio with the loop    *)
(*                scheduled fairly, for termination                        *)
(***************************************************************************)
EXTENDS Integers, Sequences, FiniteSets, TLC

VARIABLES
    \* ---- providers (Spec) ----
    fs,          \* path -> what is on disk at that path
    tpc,         \* task -> position inside the provider call it is running
    call,        \* task -> the call it is running: operation, provider, path
    log,         \* task -> the sub-operations the current call has started
    ret,         \* task -> what the call returned
    \* ---- registry (SpecRegistry) ----
    lazyState,   \* state of the once_cell Lazy holding REGISTRY
    REGISTRY,    \* content type -> provider instance, as stored in the Lazy
    building,    \* the HashMap under construction inside the Lazy closure
    initRuns,    \* number of times the Lazy closure has been entered
    nextArc,     \* next fresh Arc allocation
    rpc,         \* thread -> position
    observed,    \* thread -> the mapping it got when it dereferenced REGISTRY
    lookup,      \* the registry lookup that returned last: function, argument,
                 \* result (none once the next call has begun)
    \* ---- chunk_text (SpecChunk) ----
    chars,       \* the text, as its characters
    chunk_size,
    overlap,
    start,
    chunks,
    cpc,         \* position in chunk_text
    \* ---- the formats' chunkers (SpecMarkdown, SpecJson, SpecAudio) ----
    md,          \* MarkdownProvider: the document and extract_sections' result
    js,          \* JsonProvider: the parsed value and extract_chunks' result
    au,          \* AudioProvider: the samples and the loop of segment_audio
    out,         \* the Vec<ContentChunk> a provider's to_markdown_chunks returned
    \* ---- the shared embedding handle (SpecEmbed) ----
    cell,        \* EMBEDDING_SERVICE, the OnceCell: its state, the thread in it,
                 \* the Arc it holds and how often its closure was entered
    constructed, \* number of EmbeddingService values constructed
    mutex,       \* the tokio Mutex of the handle: holder and FIFO queue of waiters
    caller,      \* caller -> who it is, where it is, what it got
    embedded,    \* what to_embeddings returned for the chunks in `out`
    \* ---- the upload handlers (SpecUpload) ----
    staging,     \* file name -> what is at /tmp/{file_name}
    upload       \* request -> the handler it runs, its input, its position,
                 \* what its provider read and what it returned

provVars  == <<fs, tpc, call, log, ret>>
regVars   == <<lazyState, REGISTRY, building, initRuns, nextArc, rpc, observed, lookup>>
chunkVars == <<chars, chunk_size, overlap, start, chunks, cpc>>
fmtVars   == <<md, js, au>>
embVars   == <<cell, constructed, mutex, caller, embedded>>
upVars    == <<staging, upload>>
vars      == <<fs, tpc, call, log, ret,
               lazyState, REGISTRY, building, initRuns, nextArc, rpc, observed, lookup,
               chars, chunk_size, overlap, start, chunks, cpc,
               md, js, au, out,
               cell, constructed, mutex, caller, embedded,
               staging, upload>>

(***************************************************************************)
(* Bounds                                                                  *)
(***************************************************************************)
NumTasks == 1
NumPaths == 1
NumThreads == 2
MaxLen == 6
MaxChunkSize == 3

Tasks   == 1..NumTasks
Paths   == 1..NumPaths
Threads == 1..NumThreads

(***************************************************************************)
(* Option<T>                                                               *)
(***************************************************************************)
None == [some |-> FALSE]
Some(x) == [some |-> TRUE, v |-> x]

(***************************************************************************)
(* models/mod.rs                                                           *)
(***************************************************************************)
ContentType == {"Pdf", "Audio", "Video", "Image", "Text", "Markdown",
                "StructuredData", "Document", "Spreadsheet", "Presentation",
                "Archive", "Code", "Email", "Web", "Unknown"}


\* Result<T, anyhow::Error>
Ok(x) == [ok |-> TRUE, v |-> x]
Err(e) == [ok |-> FALSE, error |-> e]

(***************************************************************************)
(* The file system, as far as the providers can tell files apart.          *)
(*   missing      no file at the path                                      *)
(*   unreadable   the file exists (stat succeeds) but cannot be opened     *)
(*   garbage      readable bytes, neither UTF-8 text nor the format        *)
(*   text         readable UTF-8 text that is not a well-formed document   *)
(*                of a structured format (PDF, WAV, DOCX, JSON)            *)
(*   well_formed  readable and well-formed for the provider it is given to *)
(***************************************************************************)
FileKinds == {"missing", "unreadable", "garbage", "text", "well_formed"}

Providers == {"PdfProvider", "AudioProvider", "DocumentProvider",
              "JsonProvider", "MarkdownProvider"}

Operations == {"process_content", "to_markdown_chunks", "to_metadata"}

\* tokio::fs::metadata(path)
fs_metadata(f) ==
    IF f = "missing" THEN Err("io: No such file or directory") ELSE Ok(f)

\* tokio::fs::read(path), File::open(path)
fs_read(f) ==
    IF f = "missing" THEN Err("io: No such file or directory")
    ELSE IF f = "unreadable" THEN Err("io: Permission denied")
    ELSE Ok(f)

\* tokio::fs::read_to_string(path)
fs_read_to_string(f) ==
    IF ~fs_read(f).ok THEN fs_read(f)
    ELSE IF f = "garbage" THEN Err("io: stream did not contain valid UTF-8")
    ELSE Ok(f)

\* The format decoder of a structured format, on bytes that were read.
Decode(f, what) ==
    IF ~fs_read(f).ok THEN fs_read(f)
    ELSE IF f = "well_formed" THEN Ok(f)
    ELSE Err(what)

\* The chunk list a provider derives from decoded content.
ChunksOf(source, f) == [source |-> source, of |-> f]

PdfProvider_to_markdown_chunks(f) ==
    LET text == Decode(f, "decode: pdf extract_text failed")
    IN  IF text.ok THEN Ok(ChunksOf("pdf", f)) ELSE text

AudioProvider_extract_wav_info(f) == Decode(f, "decode: not a WAV file")

AudioProvider_to_markdown_chunks(f) ==
    LET wav == AudioProvider_extract_wav_info(f)
    IN  IF wav.ok THEN Ok(ChunksOf("audio", f)) ELSE wav

DocumentProvider_to_markdown_chunks(f) ==
    LET file_bytes == fs_read(f)
        text == Decode(f, "decode: read_docx failed")
    IN  IF ~file_bytes.ok THEN file_bytes
        ELSE IF ~text.ok THEN text
        ELSE Ok(ChunksOf("docx", f))

JsonProvider_to_markdown_chunks(f) ==
    LET content == fs_read_to_string(f)
        json_value == Decode(f, "decode: serde_json expected value")
    IN  IF ~content.ok THEN content
        ELSE IF ~json_value.ok THEN json_value
        ELSE Ok(ChunksOf("json", f))

\* extract_sections accepts every string, so reading the text is all that can fail
MarkdownProvider_to_markdown_chunks(f) ==
    LET content == fs_read_to_string(f)
    IN  IF ~content.ok THEN content ELSE Ok(ChunksOf("markdown", f))

to_markdown_chunks(provider, f) ==
    CASE provider = "PdfProvider"      -> PdfProvider_to_markdown_chunks(f)
      [] provider = "AudioProvider"    -> AudioProvider_to_markdown_chunks(f)
      [] provider = "DocumentProvider" -> DocumentProvider_to_markdown_chunks(f)
      [] provider = "JsonProvider"     -> JsonProvider_to_markdown_chunks(f)
      [] provider = "MarkdownProvider" -> MarkdownProvider_to_markdown_chunks(f)

\* The fields every provider fills the same way; title and additional are
\* format specific and are not part of this record.
ContentMetadata(content_type, path) ==
    [content_type |-> content_type,
     file_name    |-> Some(path),
     file_size    |-> Some("len"),
     created_at   |-> None,
     modified_at  |-> None,
     author       |-> None,
     language     |-> None]

PdfProvider_to_metadata(f, path) ==
    LET file_metadata == fs_metadata(f)
    IN  IF ~file_metadata.ok THEN file_metadata
        ELSE Ok(ContentMetadata("Pdf", path))

AudioProvider_to_metadata(f, path) ==
    LET file_metadata == fs_metadata(f)
        wav == AudioProvider_extract_wav_info(f)
    IN  IF ~file_metadata.ok THEN file_metadata
        ELSE IF ~wav.ok THEN wav
        ELSE Ok(ContentMetadata("Audio", path))

DocumentProvider_to_metadata(f, path) ==
    LET file_metadata == fs_metadata(f)
    IN  IF ~file_metadata.ok THEN file_metadata
        ELSE Ok(ContentMetadata("Document", path))

JsonProvider_to_metadata(f, path) ==
    LET file_metadata == fs_metadata(f)
    IN  IF ~file_metadata.ok THEN file_metadata
        ELSE Ok(ContentMetadata("StructuredData", path))

MarkdownProvider_to_metadata(f, path) ==
    LET file_metadata == fs_metadata(f)
        content == fs_read_to_string(f)
    IN  IF ~file_metadata.ok THEN file_metadata
        ELSE IF ~content.ok THEN content
        ELSE Ok(ContentMetadata("Markdown", path))

to_metadata(provider, f, path) ==
    CASE provider = "PdfProvider"      -> PdfProvider_to_metadata(f, path)
      [] provider = "AudioProvider"    -> AudioProvider_to_metadata(f, path)
      [] provider = "DocumentProvider" -> DocumentProvider_to_metadata(f, path)
      [] provider = "JsonProvider"     -> JsonProvider_to_metadata(f, path)
      [] provider = "MarkdownProvider" -> MarkdownProvider_to_metadata(f, path)


(***************************************************************************)
(* process_content, the same in all five providers:                        *)
(*     let chunks = self.to_markdown_chunks(file_path).await?;             *)
(*     let metadata = self.to_metadata(file_path).await?;                  *)
(*     Ok(ContentProcessingResult { success: true, chunks, metadata,       *)
(*                                  error: None })                         *)
(* Each await is a point where other tasks and the file system move.       *)
(***************************************************************************)
\* process_content filling in `error` on the success path
ContentProcessingResult_WithError(chunks_, metadata_) ==
    [success |-> TRUE, chunks |-> chunks_, metadata |-> metadata_, error |-> Some("")]

ContentProcessingResult(chunks_, metadata_) ==
    [success |-> TRUE, chunks |-> chunks_, metadata |-> metadata_, error |-> None]

\* process_content without the `?` on to_markdown_chunks: metadata extraction
\* runs whatever chunk extraction returned
AfterChunks_NoAbort(operation, r) ==
    IF operation = "process_content" THEN "to_metadata" ELSE "returned"

\* Where a call goes after to_markdown_chunks returned r: the `?` of
\* process_content returns the error at once.
AfterChunks(operation, r) ==
    IF operation = "process_content" /\ r.ok THEN "to_metadata" ELSE "returned"

\* What process_content returns, given what its two sub-operations returned.
process_content_return(c, m) ==
    IF ~c.ok THEN c
    ELSE IF ~m.ok THEN m
    ELSE Ok(ContentProcessingResult(c.v, m.v))

NoCall  == [operation |-> "none"]
Pending == [ok |-> FALSE, error |-> "pending"]

LogEntry(operation, f, r) == [operation |-> operation, file |-> f, out |-> r]

\* A task calls one of the ContentProvider operations of a provider on a path.
Call(t, operation, provider, path) ==
    /\ tpc[t] = "idle"
    /\ call' = [call EXCEPT ![t] = [operation |-> operation, provider |-> provider,
                                    path |-> path]]
    /\ tpc' = [tpc EXCEPT ![t] = IF operation = "to_metadata" THEN "to_metadata"
                                 ELSE "to_markdown_chunks"]
    /\ log' = [log EXCEPT ![t] = <<>>]
    /\ ret' = [ret EXCEPT ![t] = Pending]
    /\ UNCHANGED fs

\* A to_markdown_chunks that went through the embedding service: it fails
\* unless the service has been constructed.
RunChunks_NeedsEmbedder(t) ==
    /\ tpc[t] = "to_markdown_chunks"
    /\ LET f == fs[call[t].path]
           r == IF cell.state = "init"
                THEN to_markdown_chunks(call[t].provider, f)
                ELSE Err("embedding service unavailable")
       IN  /\ log' = [log EXCEPT ![t] = Append(@, LogEntry("to_markdown_chunks", f, r))]
           /\ tpc' = [tpc EXCEPT ![t] = AfterChunks(call[t].operation, r)]
           /\ ret' = [ret EXCEPT ![t] =
                        IF AfterChunks(call[t].operation, r) = "returned" THEN r ELSE @]
    /\ UNCHANGED <<fs, call>>

\* to_markdown_chunks runs to completion on the file as it is now.
RunChunks(t) ==
    /\ tpc[t] = "to_markdown_chunks"
    /\ LET f == fs[call[t].path]
           r == to_markdown_chunks(call[t].provider, f)
       IN  /\ log' = [log EXCEPT ![t] = Append(@, LogEntry("to_markdown_chunks", f, r))]
           /\ tpc' = [tpc EXCEPT ![t] = AfterChunks(call[t].operation, r)]
           /\ ret' = [ret EXCEPT ![t] =
                        IF AfterChunks(call[t].operation, r) = "returned" THEN r ELSE @]
    /\ UNCHANGED <<fs, call>>

\* to_metadata runs to completion on the file as it is now.
RunMetadata(t) ==
    /\ tpc[t] = "to_metadata"
    /\ LET f == fs[call[t].path]
           m == to_metadata(call[t].provider, f, call[t].path)
       IN  /\ log' = [log EXCEPT ![t] = Append(@, LogEntry("to_metadata", f, m))]
           /\ ret' = [ret EXCEPT ![t] =
                        IF call[t].operation = "process_content"
                        THEN process_content_return(log[t][1].out, m)
                        ELSE m]
    /\ tpc' = [tpc EXCEPT ![t] = "returned"]
    /\ UNCHANGED <<fs, call>>

\* The caller has taken the returned value; the task is free for another call.
Finish(t) ==
    /\ tpc[t] = "returned"
    /\ tpc' = [tpc EXCEPT ![t] = "idle"]
    /\ call' = [call EXCEPT ![t] = NoCall]
    /\ log' = [log EXCEPT ![t] = <<>>]
    /\ ret' = [ret EXCEPT ![t] = Pending]
    /\ UNCHANGED fs

\* The owner of a staged file writes it (api/content.rs, the tests' fs::write).
WriteFile(path, f) ==
    /\ f # "missing"
    /\ fs[path] # f
    /\ fs' = [fs EXCEPT ![path] = f]
    /\ UNCHANGED <<tpc, call, log, ret>>

\* The owner of a staged file removes it (fs::remove_file).
RemoveFile(path) ==
    /\ fs[path] # "missing"
    /\ fs' = [fs EXCEPT ![path] = "missing"]
    /\ UNCHANGED <<tpc, call, log, ret>>

ProvInit ==
    /\ fs \in [Paths -> FileKinds]
    /\ tpc = [t \in Tasks |-> "idle"]
    /\ call = [t \in Tasks |-> NoCall]
    /\ log = [t \in Tasks |-> <<>>]
    /\ ret = [t \in Tasks |-> Pending]


(***************************************************************************)
(* Strings are sequences of characters.  KelvinSign is U+212A, the one     *)
(* non-ASCII character whose lower-case form is an ASCII letter of a       *)
(* supported extension.                                                    *)
(***************************************************************************)
UpperAlphabet == <<"A", "B", "C", "D", "E", "F", "G", "H", "I", "J", "K", "L", "M",
                   "N", "O", "P", "Q", "R", "S", "T", "U", "V", "W", "X", "Y", "Z">>
LowerAlphabet == <<"a", "b", "c", "d", "e", "f", "g", "h", "i", "j", "k", "l", "m",
                   "n", "o", "p", "q", "r", "s", "t", "u", "v", "w", "x", "y", "z">>
KelvinSign == "U+212A"

\* char::to_lowercase
char_to_lowercase(c) ==
    IF \E i \in 1..26 : UpperAlphabet[i] = c
    THEN LowerAlphabet[CHOOSE i \in 1..26 : UpperAlphabet[i] = c]
    ELSE IF c = KelvinSign THEN "k"
    ELSE c

\* get_provider_by_extension matching the extension as given
to_lowercase_Identity(s) == s

\* str::to_lowercase
to_lowercase(s) == [i \in 1..Len(s) |-> char_to_lowercase(s[i])]

(***************************************************************************)
(* providers/registry.rs                                                   *)
(***************************************************************************)
\* The insertions of the closure that builds REGISTRY, in order.
RegistryEntries ==
    << [content_type |-> "Pdf",            provider |-> "PdfProvider"],
       [content_type |-> "Audio",          provider |-> "AudioProvider"],
       [content_type |-> "Document",       provider |-> "DocumentProvider"],
       [content_type |-> "StructuredData", provider |-> "JsonProvider"],
       [content_type |-> "Markdown",       provider |-> "MarkdownProvider"] >>

\* The match without its "markdown" alternative
ExtensionMatch_NoMarkdownArm(lowered) ==
    CASE lowered = <<"p", "d", "f">>      -> Some("Pdf")
      [] lowered = <<"w", "a", "v">>      -> Some("Audio")
      [] lowered = <<"d", "o", "c", "x">> -> Some("Document")
      [] lowered = <<"j", "s", "o", "n">> -> Some("StructuredData")
      [] lowered = <<"m", "d">>           -> Some("Markdown")
      [] OTHER                            -> None

\* The match of get_provider_by_extension on the lower-cased extension.
ExtensionMatch(lowered) ==
    CASE lowered = <<"p", "d", "f">>                          -> Some("Pdf")
      [] lowered = <<"w", "a", "v">>                          -> Some("Audio")
      [] lowered = <<"d", "o", "c", "x">>                     -> Some("Document")
      [] lowered = <<"j", "s", "o", "n">>                     -> Some("StructuredData")
      [] lowered = <<"m", "d">>                               -> Some("Markdown")
      [] lowered = <<"m", "a", "r", "k", "d", "o", "w", "n">> -> Some("Markdown")
      [] OTHER                                                -> None

\* HashMap::get(key).cloned(): the Arc stored under the key, the same allocation
HashMapGet(map, key) ==
    IF key \in DOMAIN map THEN Some(map[key]) ELSE None

\* get_provider(&content_type).map(|provider| (content_type, provider))
ByExtensionResult(content_type, found) ==
    IF found.some
    THEN Some([content_type |-> content_type, provider |-> found.v])
    ELSE None

\* A cell that lets every thread that finds no value yet run the closure
LazyClaims_NoGuard(state) == state # "COMPLETE"

\* once_cell: the thread whose compare-and-swap takes the cell from
\* INCOMPLETE to RUNNING runs the closure; nobody else does.
LazyClaims(state) == state = "INCOMPLETE"

Idle == [at |-> "idle"]
NoLookup == [fn |-> "none"]

\* get_provider_by_extension(extension), up to its use of REGISTRY
GetProviderByExtension(th, extension) ==
    /\ rpc[th].at = "idle"
    /\ LET content_type == ExtensionMatch(to_lowercase(extension))
       IN  IF content_type.some
           THEN /\ rpc' = [rpc EXCEPT ![th] =
                            [at |-> "deref", fn |-> "get_provider_by_extension",
                             arg |-> extension, content_type |-> content_type.v,
                             waited |-> FALSE]]
                /\ lookup' = NoLookup
           ELSE \* `_ => return None`
                /\ lookup' = [fn |-> "get_provider_by_extension", arg |-> extension,
                              result |-> None]
                /\ UNCHANGED rpc
    /\ UNCHANGED <<lazyState, REGISTRY, building, initRuns, nextArc, observed>>

\* get_provider(content_type), up to its use of REGISTRY
GetProvider(th, content_type) ==
    /\ rpc[th].at = "idle"
    /\ rpc' = [rpc EXCEPT ![th] =
                 [at |-> "deref", fn |-> "get_provider", arg |-> content_type,
                  content_type |-> content_type, waited |-> FALSE]]
    /\ lookup' = NoLookup
    /\ UNCHANGED <<lazyState, REGISTRY, building, initRuns, nextArc, observed>>

\* Deref of REGISTRY (Lazy::force): take the value if it is there, start
\* building it if nobody has, wait if somebody is.
LazyForce(th) ==
    /\ rpc[th].at = "deref"
    /\ IF lazyState = "COMPLETE"
       THEN /\ observed' = [observed EXCEPT ![th] = Some(REGISTRY)]
            /\ rpc' = [rpc EXCEPT ![th].at = "have"]
            /\ UNCHANGED <<lazyState, building, initRuns>>
       ELSE IF LazyClaims(lazyState)
       THEN /\ lazyState' = "RUNNING"
            /\ initRuns' = initRuns + 1
            /\ building' = [building EXCEPT ![th] = <<>>]
            /\ rpc' = [rpc EXCEPT ![th].at = "init"]
            /\ UNCHANGED observed
       ELSE /\ rpc' = [rpc EXCEPT ![th].at = "blocked", ![th].waited = TRUE]
            /\ UNCHANGED <<lazyState, building, initRuns, observed>>
    /\ UNCHANGED <<REGISTRY, nextArc, lookup>>

\* registry.insert(ContentType::X, Arc::new(XProvider::new()) as ProviderFactory)
LazyInitInsert(th) ==
    /\ rpc[th].at = "init"
    /\ Cardinality(DOMAIN building[th]) < Len(RegistryEntries)
    /\ LET e == RegistryEntries[Cardinality(DOMAIN building[th]) + 1]
       IN  building' = [building EXCEPT ![th] =
                (e.content_type :> [provider |-> e.provider, arc |-> nextArc]) @@ @]
    /\ nextArc' = nextArc + 1
    /\ UNCHANGED <<lazyState, REGISTRY, initRuns, rpc, observed, lookup>>

\* The closure returns `registry`; the Lazy stores it and wakes the waiters.
LazyInitStore(th) ==
    /\ rpc[th].at = "init"
    /\ Cardinality(DOMAIN building[th]) = Len(RegistryEntries)
    /\ REGISTRY' = building[th]
    /\ lazyState' = "COMPLETE"
    /\ observed' = [observed EXCEPT ![th] = Some(building[th])]
    /\ rpc' = [rpc EXCEPT ![th].at = "have"]
    /\ UNCHANGED <<building, initRuns, nextArc, lookup>>

\* A thread that waited for the initialisation gets the stored value.
LazyWake(th) ==
    /\ rpc[th].at = "blocked"
    /\ lazyState = "COMPLETE"
    /\ observed' = [observed EXCEPT ![th] = Some(REGISTRY)]
    /\ rpc' = [rpc EXCEPT ![th].at = "have"]
    /\ UNCHANGED <<lazyState, REGISTRY, building, initRuns, nextArc, lookup>>

\* REGISTRY.get(content_type).cloned(), and the return of either function
LookupReturn(th) ==
    /\ rpc[th].at = "have"
    /\ LET found == HashMapGet(observed[th].v, rpc[th].content_type)
       IN  lookup' = [fn |-> rpc[th].fn, arg |-> rpc[th].arg, waited |-> rpc[th].waited,
                      result |-> IF rpc[th].fn = "get_provider" THEN found
                                 ELSE ByExtensionResult(rpc[th].content_type, found)]
    /\ rpc' = [rpc EXCEPT ![th] = Idle]
    /\ UNCHANGED <<lazyState, REGISTRY, building, initRuns, nextArc, observed>>

RegInit ==
    /\ lazyState = "INCOMPLETE"
    /\ REGISTRY = <<>>
    /\ building = [th \in Threads |-> <<>>]
    /\ initRuns = 0
    /\ nextArc = 1
    /\ rpc = [th \in Threads |-> Idle]
    /\ observed = [th \in Threads |-> None]
    /\ lookup = NoLookup


(***************************************************************************)
(* chunk_text (PdfProvider and DocumentProvider have the same body)        *)
(*     let mut start = 0;                                                  *)
(*     while start < chars.len() {                                         *)
(*         let end = (start + chunk_size).min(chars.len());                *)
(*         chunks.push(chars[start..end]);                                 *)
(*         if end >= chars.len() { break; }                                *)
(*         start = end - overlap;                                          *)
(*     }                                                                   *)
(* Positions are 0-based as in the source; chars[start..end] is            *)
(* SubSeq(chars, start + 1, end).  No usize operation wraps when           *)
(* chunk_size > overlap: start + chunk_size is only evaluated with         *)
(* start < chars.len(), and after the first iteration chunk_size <         *)
(* chars.len() too; end - overlap has end >= chunk_size.                   *)
(***************************************************************************)
Alphabet == {"a", "b"}

Min(a, b) == IF a < b THEN a ELSE b

\* (start + chunk_size).min(chars.len())
WindowEnd(start_, chunk_size_, len) == Min(start_ + chunk_size_, len)

\* break only when the window would pass the end of the text
BreakAt_Strict(end, len) == end > len

\* if end >= chars.len() { break; }
BreakAt(end, len) == end >= len

\* the next window starting where this one ended
NextStart_NoOverlap(end, overlap_) == end

\* the next window starting one character late
NextStart_SkipOne(end, overlap_) == end - overlap_ + 1

\* A window that steps back one character further than the overlap
NextStart_StepBack(end, overlap_) == end - overlap_ - 1

\* start = end - overlap
NextStart(end, overlap_) == end - overlap_

\* One iteration of the while loop.
ChunkTextIterate ==
    /\ cpc = "while"
    /\ start < Len(chars)
    /\ LET end == WindowEnd(start, chunk_size, Len(chars))
       IN  /\ chunks' = Append(chunks, SubSeq(chars, start + 1, end))
           /\ IF BreakAt(end, Len(chars))
              THEN /\ cpc' = "return"
                   /\ UNCHANGED start
              ELSE /\ start' = NextStart(end, overlap)
                   /\ UNCHANGED cpc
    /\ UNCHANGED <<chars, chunk_size, overlap>>

\* The loop condition is false: fall out of the loop.
ChunkTextExit ==
    /\ cpc = "while"
    /\ ~(start < Len(chars))
    /\ cpc' = "return"
    /\ UNCHANGED <<chars, chunk_size, overlap, start, chunks>>

Texts == UNION {[1..n -> Alphabet] : n \in 0..MaxLen}

ChunkInit ==
    /\ chars \in Texts
    /\ chunk_size \in 1..MaxChunkSize
    /\ overlap \in 0..(chunk_size - 1)
    /\ start = 0
    /\ chunks = <<>>
    /\ cpc = "while"

NumCallers == 2
MaxRuns    == 2

\* the runs of the cell's closure are counted up to MaxRuns
CountRun(n) == IF n < MaxRuns THEN n + 1 ELSE n
Callers == 1..NumCallers

NoOut == [format |-> "none"]

\* no format chunker is running and nothing has been returned
FmtIdle ==
    /\ md = [pc |-> "idle"]
    /\ js = [pc |-> "idle"]
    /\ au = [pc |-> "idle"]
    /\ out = NoOut

NotEmbedded == [ok |-> FALSE, error |-> "not called"]

\* nobody has asked for the embedding service
EmbInit ==
    /\ cell = [state |-> "uninit", by |-> 0, arc |-> 0, runs |-> 0]
    /\ constructed = 0
    /\ mutex = [holder |-> 0, queue |-> <<>>]
    /\ caller = [c \in Callers |-> [at |-> "idle", who |-> "none", ret |-> "none", handle |-> 0]]
    /\ embedded = NotEmbedded

\* Two requests are enough for every interleaving of a pair of uploads.
Requests == {"first", "second"}

\* the file names an upload can carry
FileNames == { <<"a", ".", "m", "d">>, <<"a", ".", "x", "y", "z">>, <<"a">> }

\* no request is running and the staging directory is empty
Absent == "missing"
NoRequest == [pc |-> "idle"]

\* file_name.unwrap_or("upload") of process_file_with_type
DefaultFileName == <<"u", "p", "l", "o", "a", "d">>

StagingNames == FileNames \cup {DefaultFileName}

UpIdle ==
    /\ staging = [n \in StagingNames |-> Absent]
    /\ upload = [r \in Requests |-> NoRequest]

\* chunk_text is not running
ChunkIdle ==
    /\ chars = <<>>
    /\ chunk_size = 1
    /\ overlap = 0
    /\ start = 0
    /\ chunks = <<>>
    /\ cpc = "idle"

\* nobody is calling a provider
ProvIdle ==
    /\ fs = [p \in Paths |-> "missing"]
    /\ tpc = [t \in Tasks |-> "idle"]
    /\ call = [t \in Tasks |-> NoCall]
    /\ log = [t \in Tasks |-> <<>>]
    /\ ret = [t \in Tasks |-> Pending]

(***************************************************************************)
(* Specifications                                                          *)
(***************************************************************************)
Init == ProvInit /\ RegInit /\ ChunkIdle /\ FmtIdle /\ EmbInit /\ UpIdle

Next ==
    \/ \E t \in Tasks, operation \in Operations, provider \in Providers, path \in Paths :
          Call(t, operation, provider, path) /\ UNCHANGED <<upVars, regVars, chunkVars, fmtVars, out, embVars>>
    \/ \E t \in Tasks : RunChunks(t) /\ UNCHANGED <<upVars, regVars, chunkVars, fmtVars, out, embVars>>
    \/ \E t \in Tasks : RunMetadata(t) /\ UNCHANGED <<upVars, regVars, chunkVars, fmtVars, out, embVars>>
    \/ \E t \in Tasks : Finish(t) /\ UNCHANGED <<upVars, regVars, chunkVars, fmtVars, out, embVars>>
    \/ \E path \in Paths, f \in FileKinds : WriteFile(path, f) /\ UNCHANGED <<upVars, regVars, chunkVars, fmtVars, out, embVars>>
    \/ \E path \in Paths : RemoveFile(path) /\ UNCHANGED <<upVars, regVars, chunkVars, fmtVars, out, embVars>>

Spec == Init /\ [][Next]_vars

\* The extensions and content types the racing threads ask for.
RaceExtensions == { <<"p", "d", "f">>, <<"W", "A", "V">>, <<"M", "d">>,
                    <<"t", "x", "t">>, <<>> }
RaceTypes == {"Pdf", "Audio", "Document", "StructuredData", "Markdown",
              "Text", "Unknown"}

InitRegistry == ProvIdle /\ RegInit /\ ChunkIdle /\ FmtIdle /\ EmbInit /\ UpIdle

NextRegistry ==
    \/ \E th \in Threads, extension \in RaceExtensions :
          GetProviderByExtension(th, extension) /\ UNCHANGED <<upVars, provVars, chunkVars, fmtVars, out, embVars>>
    \/ \E th \in Threads, content_type \in RaceTypes :
          GetProvider(th, content_type) /\ UNCHANGED <<upVars, provVars, chunkVars, fmtVars, out, embVars>>
    \/ \E th \in Threads : LazyForce(th) /\ UNCHANGED <<upVars, provVars, chunkVars, fmtVars, out, embVars>>
    \/ \E th \in Threads : LazyInitInsert(th) /\ UNCHANGED <<upVars, provVars, chunkVars, fmtVars, out, embVars>>
    \/ \E th \in Threads : LazyInitStore(th) /\ UNCHANGED <<upVars, provVars, chunkVars, fmtVars, out, embVars>>
    \/ \E th \in Threads : LazyWake(th) /\ UNCHANGED <<upVars, provVars, chunkVars, fmtVars, out, embVars>>
    \/ \E th \in Threads : LookupReturn(th) /\ UNCHANGED <<upVars, provVars, chunkVars, fmtVars, out, embVars>>

SpecRegistry == InitRegistry /\ [][NextRegistry]_vars

InitChunk == ProvIdle /\ RegInit /\ ChunkInit /\ FmtIdle /\ EmbInit /\ UpIdle

NextChunk ==
    \/ ChunkTextIterate /\ UNCHANGED <<upVars, provVars, regVars, fmtVars, out, embVars>>
    \/ ChunkTextExit /\ UNCHANGED <<upVars, provVars, regVars, fmtVars, out, embVars>>

SpecChunk == InitChunk /\ [][NextChunk]_vars


(***************************************************************************)
(* Properties of the provider operations (Spec)                            *)
(***************************************************************************)
Returned(t, operation) == tpc[t] = "returned" /\ call[t].operation = operation

\* A sub-operation of the call that task t has finished returned an error.
SubOperationFailed(t) == \E i \in 1..Len(log[t]) : ~log[t][i].out.ok

\* C1: when to_markdown_chunks or to_metadata fails on a file, process_content
\* returns (as an Ok value) a ContentProcessingResult with success = false and
\* an error message, instead of returning the error to its caller.
C1_FailureIsReportedInResult ==
    \A t \in Tasks :
        (Returned(t, "process_content") /\ SubOperationFailed(t))
            => /\ ret[t].ok
               /\ ret[t].v.success = FALSE
               /\ ret[t].v.error.some

\* C2: in every process_content call to_markdown_chunks is started first and
\* to_metadata second, and when to_markdown_chunks failed the call has
\* returned that error and to_metadata was not started.
C2_ChunksFirstAndFatal ==
    \A t \in Tasks :
        call[t].operation = "process_content" =>
            /\ Len(log[t]) <= 2
            /\ Len(log[t]) >= 1 => log[t][1].operation = "to_markdown_chunks"
            /\ Len(log[t]) = 2 => log[t][2].operation = "to_metadata"
            /\ tpc[t] = "to_metadata" => Len(log[t]) = 1
            /\ tpc[t] = "returned" => Len(log[t]) >= 1
            /\ (Len(log[t]) >= 1 /\ ~log[t][1].out.ok) =>
                  /\ Len(log[t]) = 1
                  /\ tpc[t] = "returned"
                  /\ ret[t] = log[t][1].out

\* A process_content call whose chunk extraction failed has returned.
C2_Witness ==
    \E t \in Tasks :
        /\ Returned(t, "process_content")
        /\ ~log[t][1].out.ok
        /\ fs[call[t].path] # "missing"

\* C3: every ContentProcessingResult returned by process_content has
\* success = true exactly when error is None.
C3_SuccessIffNoError ==
    \A t \in Tasks :
        (Returned(t, "process_content") /\ ret[t].ok)
            => (ret[t].v.success = TRUE <=> ret[t].v.error = None)

\* process_content has returned a ContentProcessingResult.
C3_Witness ==
    \E t \in Tasks : Returned(t, "process_content") /\ ret[t].ok /\ ret[t].v.success

\* The file exists and can be read, and to_markdown_chunks of the provider
\* fails on it (its content does not decode).
Undecodable(provider, f) ==
    /\ f \in {"garbage", "text"}
    /\ ~to_markdown_chunks(provider, f).ok

\* C4: to_metadata on an existing, readable file succeeds even when
\* to_markdown_chunks fails on that file with a decode error.
C4_MetadataIndependentOfDecoding ==
    \A t \in Tasks :
        (Returned(t, "to_metadata") /\ Undecodable(call[t].provider, log[t][1].file))
            => ret[t].ok


(***************************************************************************)
(* Properties of the registry lookups (SpecLookup: one thread, every       *)
(* spelling of every supported extension, and extensions outside the       *)
(* table) and of its initialisation (SpecRegistry)                         *)
(***************************************************************************)
\* The table of the specification: extension -> content type.
ExtensionTable ==
    { [extension |-> <<"p", "d", "f">>,      content_type |-> "Pdf"],
      [extension |-> <<"w", "a", "v">>,      content_type |-> "Audio"],
      [extension |-> <<"d", "o", "c", "x">>, content_type |-> "Document"],
      [extension |-> <<"j", "s", "o", "n">>, content_type |-> "StructuredData"],
      [extension |-> <<"m", "d">>,           content_type |-> "Markdown"],
      [extension |-> <<"m", "a", "r", "k", "d", "o", "w", "n">>,
                                             content_type |-> "Markdown"] }

\* The upper-case and lower-case forms of a lower-case letter.
CharVariants(c) ==
    {c} \cup {UpperAlphabet[i] : i \in {j \in 1..26 : LowerAlphabet[j] = c}}
        \cup (IF c = "k" THEN {KelvinSign} ELSE {})

RECURSIVE CaseVariants(_)
CaseVariants(s) ==
    IF s = <<>> THEN {<<>>}
    ELSE {<<c>> \o rest : c \in CharVariants(Head(s)), rest \in CaseVariants(Tail(s))}

SupportedSpellings == UNION {CaseVariants(e.extension) : e \in ExtensionTable}

UnsupportedExtensions ==
    { <<>>, <<"t", "x", "t">>, <<"T", "X", "T">>, <<"x", "y", "z">>,
      <<"u", "n", "k", "n", "o", "w", "n">>, <<"p", "d">>, <<"p", "d", "f", "x">>,
      <<".", "p", "d", "f">>, <<"m", "d", " ">>, <<"d", "o", "c">>,
      <<"w", "a", "v", "e">>, <<"m", "p", "3">>, <<"j", "s", "o", "n", "l">> }

Extensions == SupportedSpellings \cup UnsupportedExtensions

RegisteredTypes == {RegistryEntries[i].content_type : i \in 1..Len(RegistryEntries)}

InitLookup == InitRegistry

NextLookup ==
    \/ \E extension \in Extensions :
          GetProviderByExtension(1, extension) /\ UNCHANGED <<upVars, provVars, chunkVars, fmtVars, out, embVars>>
    \/ \E content_type \in ContentType :
          GetProvider(1, content_type) /\ UNCHANGED <<upVars, provVars, chunkVars, fmtVars, out, embVars>>
    \/ LazyForce(1) /\ UNCHANGED <<upVars, provVars, chunkVars, fmtVars, out, embVars>>
    \/ LazyInitInsert(1) /\ UNCHANGED <<upVars, provVars, chunkVars, fmtVars, out, embVars>>
    \/ LazyInitStore(1) /\ UNCHANGED <<upVars, provVars, chunkVars, fmtVars, out, embVars>>
    \/ LookupReturn(1) /\ UNCHANGED <<upVars, provVars, chunkVars, fmtVars, out, embVars>>

SpecLookup == InitLookup /\ [][NextLookup]_vars

ByExtension == lookup.fn = "get_provider_by_extension"
ByType == lookup.fn = "get_provider"

\* C5: get_provider_by_extension maps pdf to Pdf, wav to Audio, docx to
\* Document, json to StructuredData, md and markdown to Markdown; an extension
\* that is no spelling (in upper or lower case) of one of these six, the empty
\* string included, yields None, and so does get_provider for a content type
\* without a registered provider.
C5_ExtensionTable ==
    /\ ByExtension =>
          /\ \A e \in ExtensionTable :
                lookup.arg = e.extension =>
                    /\ lookup.result.some
                    /\ lookup.result.v.content_type = e.content_type
          /\ lookup.arg \notin SupportedSpellings => lookup.result = None
    /\ (ByType /\ lookup.arg \notin {"Pdf", "Audio", "Document", "StructuredData", "Markdown"})
          => lookup.result = None

\* The lookup of the empty extension has returned None.
C5_Witness == ByExtension /\ lookup.arg = <<>> /\ lookup.result = None

\* C6: for every spelling, in upper or lower case, of a supported extension,
\* get_provider_by_extension returns the content type of the table and the
\* provider instance stored in REGISTRY for it, which is the instance
\* get_provider returns for that content type.
C6_CaseInsensitiveSameInstance ==
    /\ ByExtension =>
          \A e \in ExtensionTable :
              lookup.arg \in CaseVariants(e.extension) =>
                  /\ lookup.result.some
                  /\ lookup.result.v.content_type = e.content_type
                  /\ lazyState = "COMPLETE"
                  /\ lookup.result.v.provider = REGISTRY[e.content_type]
    /\ (ByType /\ lookup.arg \in RegisteredTypes) =>
          /\ lazyState = "COMPLETE"
          /\ lookup.result = Some(REGISTRY[lookup.arg])

\* The lookup of a spelling with capital letters has returned a provider.
C6_Witness ==
    /\ ByExtension
    /\ lookup.arg = <<"M", "a", "r", "k", "D", "O", "W", "N">>
    /\ lookup.result.some

\* The mapping the registry closure builds: the five providers, one each.
FullyBuilt(map) ==
    /\ DOMAIN map = RegisteredTypes
    /\ \A i \in 1..Len(RegistryEntries) :
          map[RegistryEntries[i].content_type].provider = RegistryEntries[i].provider

\* C7: under any interleaving of first accesses the registry closure runs
\* once, every thread that dereferences REGISTRY gets the fully built
\* five-entry mapping, and the stored mapping never changes afterwards.
C7_InitialisedExactlyOnce ==
    /\ [](/\ initRuns <= 1
          /\ lazyState = "COMPLETE" => (initRuns = 1 /\ FullyBuilt(REGISTRY))
          /\ \A th \in Threads :
                observed[th].some =>
                    /\ lazyState = "COMPLETE"
                    /\ observed[th].v = REGISTRY)
    /\ [][lazyState = "COMPLETE" =>
             (lazyState' = "COMPLETE" /\ REGISTRY' = REGISTRY)]_vars

\* A thread that found the initialisation running has, after waiting, got the
\* mapping, as has the thread that ran it.
C7_Witness ==
    \E th1, th2 \in Threads :
        /\ th1 # th2
        /\ observed[th1].some
        /\ observed[th2].some
        /\ rpc[th2].at = "have"
        /\ rpc[th2].waited

(***************************************************************************)
(* Properties of chunk_text (SpecChunk)                                    *)
(***************************************************************************)
LastChars(s, n) == SubSeq(s, Len(s) - n + 1, Len(s))
FirstChars(s, n) == SubSeq(s, 1, n)

\* C8: with chunk_size > overlap >= 0, for every pair of consecutive chunks
\* the last `overlap` characters of the first are the first `overlap`
\* characters of the second.
C8_OverlapRegion ==
    \A i \in 1..(Len(chunks) - 1) :
        /\ Len(chunks[i]) >= overlap
        /\ Len(chunks[i + 1]) >= overlap
        /\ LastChars(chunks[i], overlap) = FirstChars(chunks[i + 1], overlap)

\* chunk_text has returned three or more chunks that overlap in two
\* characters which differ.
C8_Witness ==
    /\ cpc = "return"
    /\ Len(chunks) >= 3
    /\ overlap = 2
    /\ chunks[2][1] # chunks[2][2]

\* C9 as stated: whenever the text length is <= chunk_size, length 0
\* included, exactly one chunk is produced and it is the whole text.
C9_OneChunkUpToChunkSize ==
    (cpc = "return" /\ Len(chars) <= chunk_size) => chunks = <<chars>>

\* C9 amended: whenever the text is not empty and its length is <= chunk_size,
\* exactly one chunk is produced (none before the first iteration, no second
\* one after it) and it is the whole text; for the empty text no chunk is
\* produced.
C9_OneChunkUpToChunkSizeNonEmpty ==
    /\ (1 <= Len(chars) /\ Len(chars) <= chunk_size) =>
          IF cpc = "return" THEN chunks = <<chars>> ELSE chunks = <<>>
    /\ Len(chars) = 0 => chunks = <<>>

\* chunk_text has returned for a text of exactly chunk_size characters, with
\* an overlap.
C9_Witness ==
    /\ cpc = "return"
    /\ Len(chars) = chunk_size
    /\ overlap >= 1
    /\ Len(chunks) = 1

\* The chunks, each after the first stripped of its first n characters, joined.
RECURSIVE JoinStripped(_, _, _)
JoinStripped(cs, n, i) ==
    IF i > Len(cs) THEN <<>>
    ELSE (IF i = 1 THEN cs[i] ELSE SubSeq(cs[i], n + 1, Len(cs[i])))
            \o JoinStripped(cs, n, i + 1)

\* C10: the chunks reconstruct the text when each chunk after the first is
\* stripped of its first `overlap` characters and the pieces are joined in
\* order, and every chunk except the last has exactly chunk_size characters.
C10_Reconstruction ==
    cpc = "return" =>
        /\ \A i \in 2..Len(chunks) : Len(chunks[i]) >= overlap
        /\ JoinStripped(chunks, overlap, 1) = chars
        /\ \A i \in 1..(Len(chunks) - 1) : Len(chunks[i]) = chunk_size

\* chunk_text has returned several chunks, the last one shorter, with an overlap.
C10_Witness ==
    /\ cpc = "return"
    /\ Len(chunks) >= 3
    /\ overlap >= 1
    /\ Len(chunks[Len(chunks)]) < chunk_size


\* ======================================================================
\* MarkdownProvider: heading-based splitting              (SpecMarkdown)
\* ======================================================================
\* A String is a sequence of one-character strings.

MaxBlocks == 3

RECURSIVE Repeat(_, _)
\* str::repeat
Repeat(c, n) == IF n = 0 THEN <<>> ELSE <<c>> \o Repeat(c, n - 1)

\* the character U+0060 (grave accent)
Backtick == "U+0060"

\* char::is_whitespace, on the characters the documents are made of
IsWhitespace(c) == c \in {" ", "\n"}

RECURSIVE TrimStart(_)
TrimStart(s) ==
    IF s # <<>> /\ IsWhitespace(Head(s)) THEN TrimStart(Tail(s)) ELSE s

RECURSIVE TrimEnd(_)
TrimEnd(s) ==
    IF s # <<>> /\ IsWhitespace(s[Len(s)])
    THEN TrimEnd(SubSeq(s, 1, Len(s) - 1)) ELSE s

\* str::trim
Trim(s) == TrimEnd(TrimStart(s))

\* ---- the documents: blocks separated by one blank line ----
\* inline fragments of a heading or a paragraph
TextFragment(s) == [f |-> "text", s |-> s]      \* s
Emphasis(s)     == [f |-> "emphasis", s |-> s]  \* *s*
CodeSpan(s)     == [f |-> "code", s |-> s]      \* s between two backticks
LineEnd         == [f |-> "soft", s |-> <<>>]   \* a line end inside a paragraph
BackslashEnd    == [f |-> "hard", s |-> <<>>]   \* a backslash before the line end

HeadingLevels == {1, 2, 3}

\* what follows the '#'s of an ATX heading
HeadingInlines ==
    { <<>>,                                          \* "#"
      <<TextFragment(<<"a">>)>>,                     \* "# a"
      <<TextFragment(<<"a", " ">>), Emphasis(<<"b">>)>>,   \* "# a *b*"
      <<CodeSpan(<<"a">>)>> }                        \* "# " and a code span

ParagraphInlines ==
    { <<TextFragment(<<"a">>)>>,                                   \* "a"
      <<TextFragment(<<"a">>), LineEnd, TextFragment(<<"b">>)>>,   \* "a\nb"
      <<TextFragment(<<"a">>), BackslashEnd, TextFragment(<<"b">>)>> }

Blocks ==
    [b : {"heading"}, level : HeadingLevels, inl : HeadingInlines]
    \cup [b : {"paragraph"}, level : {0}, inl : ParagraphInlines]
    \cup [b : {"fence"}, level : {0}, inl : {<<TextFragment(<<"a">>)>>}]
    \cup [b : {"rule"}, level : {0}, inl : {<<>>}]

Documents == UNION {[1..n -> Blocks] : n \in 0..MaxBlocks}

\* ---- the text of a document ----
FragmentSource(x) ==
    CASE x.f = "text"     -> x.s
      [] x.f = "emphasis" -> <<"*">> \o x.s \o <<"*">>
      [] x.f = "code"     -> <<Backtick>> \o x.s \o <<Backtick>>
      [] x.f = "soft"     -> <<"\n">>
      [] x.f = "hard"     -> <<"\\", "\n">>

RECURSIVE InlineSource(_)
InlineSource(inl) ==
    IF inl = <<>> THEN <<>>
    ELSE FragmentSource(Head(inl)) \o InlineSource(Tail(inl))

BlockSource(blk) ==
    CASE blk.b = "heading" ->
            Repeat("#", blk.level)
            \o (IF blk.inl = <<>> THEN <<>> ELSE <<" ">> \o InlineSource(blk.inl))
      [] blk.b = "paragraph" -> InlineSource(blk.inl)
      [] blk.b = "fence" ->
            <<Backtick, Backtick, Backtick, "\n">> \o InlineSource(blk.inl)
            \o <<"\n", Backtick, Backtick, Backtick>>
      [] blk.b = "rule" -> <<"-", "-", "-">>

RECURSIVE Source(_)
Source(doc) ==
    IF doc = <<>> THEN <<>>
    ELSE IF Len(doc) = 1 THEN BlockSource(doc[1])
    ELSE BlockSource(Head(doc)) \o <<"\n", "\n">> \o Source(Tail(doc))


\* ---- the events pulldown_cmark's Parser yields for a document ----
StartHeading(level) == [ev |-> "Start(Heading)", level |-> level, text |-> <<>>]
EndHeading     == [ev |-> "End(Heading)", level |-> 0, text |-> <<>>]
Text(s)        == [ev |-> "Text", level |-> 0, text |-> s]
Code(s)        == [ev |-> "Code", level |-> 0, text |-> s]
StartCodeBlock == [ev |-> "Start(CodeBlock)", level |-> 0, text |-> <<>>]
EndCodeBlock   == [ev |-> "End(CodeBlock)", level |-> 0, text |-> <<>>]
SoftBreak      == [ev |-> "SoftBreak", level |-> 0, text |-> <<>>]
HardBreak      == [ev |-> "HardBreak", level |-> 0, text |-> <<>>]
\* Start/End of Paragraph and of Emphasis, Rule: the `_ => {}` arm
OtherEvent     == [ev |-> "Other", level |-> 0, text |-> <<>>]

FragmentEvents(x) ==
    CASE x.f = "text"     -> <<Text(x.s)>>
      [] x.f = "emphasis" -> <<OtherEvent, Text(x.s), OtherEvent>>
      [] x.f = "code"     -> <<Code(x.s)>>
      [] x.f = "soft"     -> <<SoftBreak>>
      [] x.f = "hard"     -> <<HardBreak>>

RECURSIVE InlineEvents(_)
InlineEvents(inl) ==
    IF inl = <<>> THEN <<>>
    ELSE FragmentEvents(Head(inl)) \o InlineEvents(Tail(inl))

BlockEvents(blk) ==
    CASE blk.b = "heading" ->
            <<StartHeading(blk.level)>> \o InlineEvents(blk.inl) \o <<EndHeading>>
      [] blk.b = "paragraph" ->
            <<OtherEvent>> \o InlineEvents(blk.inl) \o <<OtherEvent>>
      [] blk.b = "fence" ->
            <<StartCodeBlock, Text(InlineSource(blk.inl) \o <<"\n">>), EndCodeBlock>>
      [] blk.b = "rule" -> <<OtherEvent>>

RECURSIVE Events(_)
\* Parser::new(markdown), for the markdown text Source(doc)
Events(doc) ==
    IF doc = <<>> THEN <<>> ELSE BlockEvents(Head(doc)) \o Events(Tail(doc))

\* ---- extract_sections ----
Section(title, content, level) ==
    [title |-> title, content |-> content, level |-> level]

\* the locals before the loop
ExtractStart ==
    [sections        |-> <<>>,
     current_section |-> <<>>,
     current_content |-> <<>>,
     current_level   |-> 0,
     in_code_block   |-> FALSE]

\* one iteration of `for event in parser`
OnEvent(st, e) ==
    CASE e.ev = "Start(Heading)" ->
            [st EXCEPT
               !.sections =
                   IF st.current_section # <<>>
                   THEN Append(@, Section(st.current_section,
                                          Trim(st.current_content),
                                          st.current_level))
                   ELSE @,
               !.current_section = <<>>,
               !.current_content = <<>>,
               !.current_level = e.level]
      [] e.ev = "End(Heading)" ->
            [st EXCEPT !.current_content = st.current_section \o <<"\n", "\n">>]
      [] e.ev = "Text" ->
            IF st.current_section = <<>> /\ st.current_level > 0
            THEN [st EXCEPT !.current_section = e.text]
            ELSE [st EXCEPT !.current_content = @ \o e.text]
      [] e.ev = "Code" ->
            [st EXCEPT !.current_content = @ \o <<Backtick>> \o e.text \o <<Backtick>>]
      [] e.ev = "Start(CodeBlock)" ->
            [st EXCEPT !.in_code_block = TRUE,
                       !.current_content = @ \o <<Backtick, Backtick, Backtick, "\n">>]
      [] e.ev = "End(CodeBlock)" ->
            [st EXCEPT !.in_code_block = FALSE,
                       !.current_content = @ \o <<"\n", Backtick, Backtick, Backtick, "\n">>]
      [] e.ev = "SoftBreak" ->
            [st EXCEPT !.current_content =
                           @ \o (IF ~st.in_code_block THEN <<" ">> ELSE <<"\n">>)]
      [] e.ev = "HardBreak" ->
            [st EXCEPT !.current_content = @ \o <<"\n">>]
      [] OTHER -> st

RECURSIVE ForEachEvent(_, _)
ForEachEvent(st, events) ==
    IF events = <<>> THEN st
    ELSE ForEachEvent(OnEvent(st, Head(events)), Tail(events))

DocumentTitle == <<"D", "o", "c", "u", "m", "e", "n", "t">>

\* extract_sections(markdown), the parser yielding `events` for `markdown`
extract_sections(markdown, events) ==
    LET st == ForEachEvent(ExtractStart, events)
        pushed ==
            IF st.current_section # <<>> \/ st.current_content # <<>>
            THEN Append(st.sections, Section(st.current_section,
                                             Trim(st.current_content),
                                             st.current_level))
            ELSE st.sections
    IN  IF pushed = <<>> /\ markdown # <<>>
        THEN <<Section(DocumentTitle, markdown, 1)>>
        ELSE pushed


\* ---- chunk ids: format!("<prefix>{}", i) ----
DigitChar(d) ==
    CASE d = 0 -> "0" [] d = 1 -> "1" [] d = 2 -> "2" [] d = 3 -> "3"
      [] d = 4 -> "4" [] d = 5 -> "5" [] d = 6 -> "6" [] d = 7 -> "7"
      [] d = 8 -> "8" [] d = 9 -> "9"

RECURSIVE ToDecimal(_)
\* Display of an unsigned integer
ToDecimal(n) ==
    IF n < 10 THEN <<DigitChar(n)>>
    ELSE ToDecimal(n \div 10) \o <<DigitChar(n % 10)>>

\* the ContentChunk of the models
ContentChunk(id, content, metadata) ==
    [id |-> id, content |-> content, metadata |-> metadata]

md_chunk_ == <<"m", "d", "_", "c", "h", "u", "n", "k", "_">>

\* the closure of to_markdown_chunks' map: section number i (from 0)
MarkdownChunk(i, section) ==
    LET full_content ==
            IF section.title # <<>>
            THEN Repeat("#", section.level) \o <<" ">> \o section.title
                 \o <<"\n", "\n">> \o section.content
            ELSE section.content
    IN  ContentChunk(md_chunk_ \o ToDecimal(i),
                     full_content,
                     [chunk_index   |-> i,
                      section_title |-> section.title,
                      heading_level |-> section.level,
                      source        |-> "markdown"])

\* to_markdown_chunks after the file was read: extract_sections(&content)
MarkdownExtractSections ==
    /\ md.pc = "extract"
    /\ md' = [md EXCEPT !.pc = "map",
                        !.sections = extract_sections(md.markdown, Events(md.doc))]
    /\ UNCHANGED <<js, au, out>>

\* ... then sections.into_iter().enumerate().map(..).collect() and Ok(chunks)
MarkdownMapSections ==
    /\ md.pc = "map"
    /\ out' = [format |-> "markdown",
               chunks |-> [k \in 1..Len(md.sections) |->
                              MarkdownChunk(k - 1, md.sections[k])]]
    /\ md' = [md EXCEPT !.pc = "done"]
    /\ UNCHANGED <<js, au>>

\* a Markdown file has been read
MarkdownInit ==
    /\ \E doc \in Documents :
          md = [pc |-> "extract", doc |-> doc, markdown |-> Source(doc),
                sections |-> <<>>]
    /\ js = [pc |-> "idle"]
    /\ au = [pc |-> "idle"]
    /\ out = NoOut

InitMarkdown == ProvIdle /\ RegInit /\ ChunkIdle /\ MarkdownInit /\ EmbInit /\ UpIdle

NextMarkdown ==
    \/ MarkdownExtractSections /\ UNCHANGED <<upVars, provVars, regVars, chunkVars, embVars>>
    \/ MarkdownMapSections /\ UNCHANGED <<upVars, provVars, regVars, chunkVars, embVars>>

SpecMarkdown == InitMarkdown /\ [][NextMarkdown]_vars

\* ----------------------------------------------------------------------
\* Claims about heading-based splitting
\* ----------------------------------------------------------------------

\* the headings of a document, in source order
Headings(doc) == SelectSeq(doc, LAMBDA blk : blk.b = "heading")

RECURSIVE HeadingText(_)
\* a heading's own text: what its fragments say, markers left out
HeadingText(inl) ==
    IF inl = <<>> THEN <<>> ELSE Head(inl).s \o HeadingText(Tail(inl))

\* C11: a Markdown document with n headings is split into exactly n chunks
\* when n >= 1 and into exactly one chunk when n = 0, whatever the headings
\* hold (empty titles, several inline fragments, text before the first one).
C11_OneChunkPerHeading ==
    md.pc = "done" =>
        LET n == Len(Headings(md.doc))
        IN  Len(out.chunks) = (IF n >= 1 THEN n ELSE 1)

\* C12: a Markdown document without any heading is split into exactly one
\* section, titled with the empty string, whose content is the entire
\* document.
C12_NoHeadingOneSection ==
    (md.pc = "done" /\ Headings(md.doc) = <<>>) =>
        /\ Len(md.sections) = 1
        /\ md.sections[1].title = <<>>
        /\ md.sections[1].content = md.markdown
        /\ Len(out.chunks) = 1
        /\ out.chunks[1].content = md.markdown

\* C13: chunks follow the headings in source order: the i-th chunk records
\* the level of the i-th heading of the document and that heading's own
\* text as its section_title.
C13_ChunkFollowsHeading ==
    md.pc = "done" =>
        LET hs == Headings(md.doc)
        IN  \A i \in 1..Len(out.chunks) :
               i <= Len(hs) =>
                  /\ out.chunks[i].metadata.heading_level = hs[i].level
                  /\ out.chunks[i].metadata.section_title = HeadingText(hs[i].inl)


\* ======================================================================
\* JsonProvider: recursive tree chunking                      (SpecJson)
\* ======================================================================

MaxDepth == 3

\* ---- serde_json::Value ----
\* kids: the members of an object in the Map's iteration order (sorted by
\* key, as serde_json's default Map), or the items of an array (k is empty)
JsonNull           == [t |-> "null", s |-> <<>>, kids |-> <<>>]
JsonString(s)      == [t |-> "string", s |-> s, kids |-> <<>>]
Member(k, v)       == [k |-> k, v |-> v]
JsonObject(members) == [t |-> "object", s |-> <<>>, kids |-> members]
JsonArray(items)   ==
    [t |-> "array", s |-> <<>>,
     kids |-> [i \in 1..Len(items) |-> Member(<<>>, items[i])]]

kind_key  == <<"k", "i", "n", "d">>
title_key == <<"t", "i", "t", "l", "e">>
Keys      == {kind_key, title_key}

Scalars == {JsonNull, JsonString(<<"D", "o", "c">>), JsonString(<<"T">>)}

ObjectsOver(V) ==
    {JsonObject(<<>>)}
    \cup {JsonObject(<<Member(k, v)>>) : k \in Keys, v \in V}
    \cup {JsonObject(<<Member(kind_key, v), Member(title_key, w)>>) :
             v \in Scalars, w \in V}

ArraysOver(V) == {JsonArray(<<>>)} \cup {JsonArray(<<v>>) : v \in V}

RECURSIVE JsonValues(_)
\* the documents serde_json::from_str accepted, nested up to depth d
JsonValues(d) ==
    IF d = 0 THEN Scalars
    ELSE LET V == JsonValues(d - 1)
         IN  Scalars \cup ObjectsOver(V) \cup ArraysOver(V)

\* ---- strings ----
RECURSIVE Join(_, _)
\* [String]::join
Join(strs, sep) ==
    IF strs = <<>> THEN <<>>
    ELSE IF Len(strs) = 1 THEN strs[1]
    ELSE Head(strs) \o sep \o Join(Tail(strs), sep)

Quote == "\""

\* Map::contains_key / Map::get
ContainsKey(obj, key) == \E i \in 1..Len(obj.kids) : obj.kids[i].k = key
Get(obj, key) ==
    (CHOOSE i \in 1..Len(obj.kids) : obj.kids[i].k = key) \* the key is there
GetValue(obj, key) == obj.kids[Get(obj, key)].v

\* obj.get("kind").and_then(|v| v.as_str()).unwrap_or("Unknown")
KindHeading(obj) ==
    IF GetValue(obj, kind_key).t = "string"
    THEN GetValue(obj, kind_key).s
    ELSE <<"U", "n", "k", "n", "o", "w", "n">>

RECURSIVE json_to_markdown(_, _)
RECURSIVE object_to_markdown(_, _)

json_to_markdown(value, indent) ==
    LET indent_str == Repeat(" ", 2 * indent)
    IN  CASE value.t = "null"   -> <<"n", "u", "l", "l">>
          [] value.t = "string" -> <<Quote>> \o value.s \o <<Quote>>
          [] value.t = "array"  ->
                LET items == [i \in 1..Len(value.kids) |->
                                 indent_str \o <<"[">> \o ToDecimal(i - 1)
                                 \o <<"]", ":", " ">>
                                 \o json_to_markdown(value.kids[i].v, indent + 1)]
                IN  <<"[", "\n">> \o Join(items, <<",", "\n">>) \o <<"\n">>
                    \o indent_str \o <<"]">>
          [] value.t = "object" ->
                IF ContainsKey(value, kind_key)
                THEN <<"#", "#", " ">> \o KindHeading(value) \o <<"\n">>
                     \o object_to_markdown(value, indent)
                ELSE object_to_markdown(value, indent)

object_to_markdown(obj, indent) ==
    LET indent_str == Repeat(" ", 2 * indent)
        entry(m) ==
            IF m.k = kind_key THEN <<>>
            ELSE indent_str \o <<"-", " ", "*", "*">> \o m.k \o <<"*", "*", ":", " ">>
                 \o json_to_markdown(m.v, indent + 1)
        entries == SelectSeq([i \in 1..Len(obj.kids) |-> entry(obj.kids[i])],
                             LAMBDA e : e # <<>>)
    IN  Join(entries, <<"\n">>)


\* ---- extract_chunks ----
\* new_path of a member: the key at the root, else "{path}.{key}"
ObjectPath_KeyOnly(path, key) == key

ObjectPath(path, key) ==
    IF path = <<>> THEN key ELSE path \o <<".">> \o key

\* new_path of an item: "{path}[{i}]"
ArrayPath(path, i) == path \o <<"[">> \o ToDecimal(i) \o <<"]">>

\* (path, content, metadata); the HashMap always has "path", "kind" only
\* in the chunk of an object that has the key
RawChunk(path, content, kind) ==
    [path |-> path, content |-> content,
     metadata |-> [path |-> path, kind |-> kind]]

RECURSIVE extract_chunks(_, _)
RECURSIVE ExtendFromKids(_, _, _, _)

\* the two `for` loops: chunks.extend(self.extract_chunks(val, new_path))
ExtendFromKids(value, path, i, chunks_) ==
    IF i > Len(value.kids) THEN chunks_
    ELSE LET new_path == IF value.t = "object"
                         THEN ObjectPath(path, value.kids[i].k)
                         ELSE ArrayPath(path, i - 1)
         IN  ExtendFromKids(value, path, i + 1,
                            chunks_ \o extract_chunks(value.kids[i].v, new_path))

extract_chunks(value, path) ==
    LET own == IF value.t = "object" /\ ContainsKey(value, kind_key)
               THEN <<RawChunk(path, json_to_markdown(value, 0),
                               Some(GetValue(value, kind_key)))>>
               ELSE <<>>
        chunks_ == IF value.t \in {"object", "array"}
                   THEN ExtendFromKids(value, path, 1, own)
                   ELSE <<>>
    IN  IF chunks_ = <<>> /\ path # <<>>
        THEN <<RawChunk(path, json_to_markdown(value, 0), None)>>
        ELSE chunks_

\* ---- to_markdown_chunks ----
RECURSIVE Sanitize(_)
\* path.replace('.', "_").replace('[', "").replace(']', "")
Sanitize(path) ==
    IF path = <<>> THEN <<>>
    ELSE (CASE Head(path) = "." -> <<"_">>
            [] Head(path) \in {"[", "]"} -> <<>>
            [] OTHER -> <<Head(path)>>) \o Sanitize(Tail(path))

json_chunk_ == <<"j", "s", "o", "n", "_", "c", "h", "u", "n", "k", "_">>

\* format!("json_chunk_{}_{}", i, <the sanitized path>)
JsonChunkId_NoOrdinal(i, path) == json_chunk_ \o Sanitize(path)

JsonChunkId(i, path) == json_chunk_ \o ToDecimal(i) \o <<"_">> \o Sanitize(path)

\* the closure of to_markdown_chunks' map: raw chunk number i (from 0)
JsonChunk(i, raw) ==
    ContentChunk(JsonChunkId(i, raw.path),
                 raw.content,
                 [path        |-> raw.metadata.path,
                  kind        |-> raw.metadata.kind,
                  chunk_index |-> i,
                  source      |-> "json"])

\* to_markdown_chunks after the file was read and parsed:
\* extract_chunks(&json_value, String::new())
JsonExtractChunks ==
    /\ js.pc = "extract"
    /\ js' = [js EXCEPT !.pc = "map",
                        !.raw_chunks = extract_chunks(js.json_value, <<>>)]
    /\ UNCHANGED <<md, au, out>>

\* ... then raw_chunks.into_iter().enumerate().map(..).collect() and Ok(chunks)
JsonMapChunks ==
    /\ js.pc = "map"
    /\ out' = [format |-> "json",
               chunks |-> [k \in 1..Len(js.raw_chunks) |->
                              JsonChunk(k - 1, js.raw_chunks[k])]]
    /\ js' = [js EXCEPT !.pc = "done"]
    /\ UNCHANGED <<md, au>>

\* a JSON file has been read and parsed
JsonInit ==
    /\ \E v \in JsonValues(MaxDepth) :
          js = [pc |-> "extract", json_value |-> v, raw_chunks |-> <<>>]
    /\ md = [pc |-> "idle"]
    /\ au = [pc |-> "idle"]
    /\ out = NoOut

InitJson == ProvIdle /\ RegInit /\ ChunkIdle /\ JsonInit /\ EmbInit /\ UpIdle

NextJson ==
    \/ JsonExtractChunks /\ UNCHANGED <<upVars, provVars, regVars, chunkVars, embVars>>
    \/ JsonMapChunks /\ UNCHANGED <<upVars, provVars, regVars, chunkVars, embVars>>

SpecJson == InitJson /\ [][NextJson]_vars


\* ----------------------------------------------------------------------
\* Claims about recursive tree chunking
\* ----------------------------------------------------------------------

StartsWith(s, prefix) ==
    Len(s) >= Len(prefix) /\ SubSeq(s, 1, Len(prefix)) = prefix

\* s holds part somewhere
Contains(s, part) ==
    \E i \in 0..(Len(s) - Len(part)) : SubSeq(s, i + 1, i + Len(part)) = part

\* the dotted/bracketed path of kid i of the value at `path`
PathOfKid(value, path, i) ==
    IF value.t = "object"
    THEN (IF path = <<>> THEN <<>> ELSE path \o <<".">>) \o value.kids[i].k
    ELSE path \o <<"[">> \o ToDecimal(i - 1) \o <<"]">>

RECURSIVE KindObjects(_, _)
RECURSIVE KindObjectsOfKids(_, _, _)

KindObjectsOfKids(value, path, i) ==
    IF i > Len(value.kids) THEN <<>>
    ELSE KindObjects(value.kids[i].v, PathOfKid(value, path, i))
         \o KindObjectsOfKids(value, path, i + 1)

\* the objects carrying a `kind` key within value, parents before children,
\* each with its path, its kind value and the heading line of its chunk
KindObjects(value, path) ==
    (IF value.t = "object" /\ ContainsKey(value, kind_key)
     THEN <<[path |-> path, kind |-> GetValue(value, kind_key),
             heading |-> <<"#", "#", " ">>
                         \o (IF GetValue(value, kind_key).t = "string"
                             THEN GetValue(value, kind_key).s
                             ELSE <<"U", "n", "k", "n", "o", "w", "n">>)
                         \o <<"\n">>]>>
     ELSE <<>>)
    \o KindObjectsOfKids(value, path, 1)

KindChunks == SelectSeq(out.chunks, LAMBDA c : c.metadata.kind.some)

\* C14: for every JSON document, every object that carries a `kind` key, at
\* any depth, gets exactly one chunk: the chunks tagged with a kind are, in
\* order, the kind-carrying objects, each with that object's kind value,
\* its path from the root, and a content that starts with the heading line
\* made from the kind.
C14_OneChunkPerKindObject ==
    js.pc = "done" =>
        LET objs == KindObjects(js.json_value, <<>>)
        IN  /\ Len(KindChunks) = Len(objs)
            /\ \A i \in 1..Len(objs) :
                  /\ KindChunks[i].metadata.kind = Some(objs[i].kind)
                  /\ KindChunks[i].metadata.path = objs[i].path
                  /\ StartsWith(KindChunks[i].content, objs[i].heading)

\* a document with kind-carrying objects at the root and two levels below it
C14_Witness ==
    /\ js.pc = "done"
    /\ \E i, j \in 1..Len(KindChunks) :
          /\ KindChunks[i].metadata.path = <<>>
          /\ Contains(KindChunks[j].metadata.path, <<".">>)

DocTitleT ==
    JsonObject(<<Member(kind_key, JsonString(<<"D", "o", "c">>)),
                 Member(title_key, JsonString(<<"T">>))>>)

\* C15: a leaf value becomes a chunk of its own only when no enclosing
\* object emitted a kind-chunk that covers it; so {"kind":"Doc","title":"T"}
\* gives exactly one chunk, whose content contains "## Doc" and whose
\* metadata has kind = "Doc".
C15_LeafChunkOnlyIfUncovered ==
    js.pc = "done" =>
        /\ \A i \in 1..Len(out.chunks) :
              ~out.chunks[i].metadata.kind.some =>
                  \A j \in 1..Len(KindChunks) :
                      ~StartsWith(out.chunks[i].metadata.path,
                                  KindChunks[j].metadata.path)
        /\ js.json_value = DocTitleT =>
              /\ Len(out.chunks) = 1
              /\ Contains(out.chunks[1].content, <<"#", "#", " ", "D", "o", "c">>)
              /\ out.chunks[1].metadata.kind = Some(JsonString(<<"D", "o", "c">>))

\* C16: when the walk yields no chunk (a bare scalar, an empty object or an
\* empty array at the root), JSON chunk extraction returns exactly one chunk
\* that holds the whole document and has an empty path.
C16_WholeDocumentFallback ==
    (js.pc = "done" /\ js.raw_chunks = <<>>) =>
        /\ Len(out.chunks) = 1
        /\ out.chunks[1].metadata.path = <<>>
        /\ out.chunks[1].content = json_to_markdown(js.json_value, 0)


\* ======================================================================
\* AudioProvider: fixed-duration segmentation                (SpecAudio)
\* ======================================================================
\* A duration is counted in half seconds, so that 0.5 s, 1.0 s and 1.5 s
\* are inputs; the products stay far below 2^24, where f32 is exact.

MaxSamples  == 6
MaxRate     == 2
MaxSegments == 7

\* the 30.0 of to_markdown_chunks, in half seconds
SegmentDurationHalves == 60

\* segment_duration_secs of a direct call of segment_audio
Durations == {1, 2, 3}

\* samples.len(): short recordings, and some around one and two segments
\* of 30 s at 1 Hz
SampleCounts     == 0..MaxSamples
LongSampleCounts == {29, 30, 31, 60, 61}
SampleRates      == 0..MaxRate

\* (sample_rate as f32 * segment_duration_secs) as usize: the cast truncates
SamplesPerSegment(sample_rate, halves) == (sample_rate * halves) \div 2

\* (start + samples_per_segment).min(samples.len())
SegmentEnd_NoMin(start_, samples_per_segment, len) == start_ + samples_per_segment

SegmentEnd(start_, samples_per_segment, len) ==
    Min(start_ + samples_per_segment, len)

\* one iteration of `while start < samples.len()`; with samples_per_segment
\* = 0 the loop never ends, and the model follows it for MaxSegments rounds
AudioSegmentIterate ==
    /\ au.pc = "while"
    /\ au.start < au.len
    /\ au.samples_per_segment > 0 \/ Len(au.segments) < MaxSegments
    /\ LET end == SegmentEnd(au.start, au.samples_per_segment, au.len)
       IN  au' = [au EXCEPT !.segments = Append(@, <<au.start, end>>),
                            !.start = end]
    /\ UNCHANGED <<md, js, out>>

\* the loop condition fails: segment_audio returns `segments`
AudioSegmentExit ==
    /\ au.pc = "while"
    /\ ~(au.start < au.len)
    /\ au' = [au EXCEPT !.pc = IF au.call = "to_markdown_chunks"
                               THEN "map" ELSE "return"]
    /\ UNCHANGED <<md, js, out>>

audio_segment_ ==
    <<"a", "u", "d", "i", "o", "_", "s", "e", "g", "m", "e", "n", "t", "_">>

\* the closure of to_markdown_chunks' map: segment number i (from 0); the
\* content is the fixed text of the format string with these arguments
AudioChunk(i, segment, spec) ==
    ContentChunk(audio_segment_ \o ToDecimal(i),
                 [number |-> i + 1, start |-> segment[1], end |-> segment[2],
                  sample_rate |-> spec.sample_rate, channels |-> spec.channels,
                  bits_per_sample |-> spec.bits_per_sample],
                 [segment_index   |-> i,
                  start_sample    |-> segment[1],
                  end_sample      |-> segment[2],
                  sample_rate     |-> spec.sample_rate,
                  channels        |-> spec.channels,
                  bits_per_sample |-> spec.bits_per_sample])

\* to_markdown_chunks: segments.into_iter().enumerate().map(..).collect()
AudioMapSegments ==
    /\ au.pc = "map"
    /\ out' = [format |-> "audio",
               chunks |-> [k \in 1..Len(au.segments) |->
                              AudioChunk(k - 1, au.segments[k], au.spec)]]
    /\ au' = [au EXCEPT !.pc = "done"]
    /\ UNCHANGED <<md, js>>

\* segment_audio(&samples, sample_rate, segment_duration_secs) was called
AudioCall(call_, len, sample_rate, halves) ==
    [pc   |-> "while",
     call |-> call_,
     len  |-> len,
     spec |-> [sample_rate |-> sample_rate, channels |-> 1, bits_per_sample |-> 16],
     halves |-> halves,
     samples_per_segment |-> SamplesPerSegment(sample_rate, halves),
     segments |-> <<>>,
     start |-> 0]

\* either directly, or by to_markdown_chunks on the samples of a WAV file
AudioInit ==
    /\ \/ \E len \in SampleCounts, r \in SampleRates, h \in Durations :
             au = AudioCall("segment_audio", len, r, h)
       \/ \E len \in SampleCounts \cup LongSampleCounts, r \in SampleRates :
             au = AudioCall("to_markdown_chunks", len, r, SegmentDurationHalves)
    /\ md = [pc |-> "idle"]
    /\ js = [pc |-> "idle"]
    /\ out = NoOut

InitAudio == ProvIdle /\ RegInit /\ ChunkIdle /\ AudioInit /\ EmbInit /\ UpIdle

NextAudio ==
    \/ AudioSegmentIterate /\ UNCHANGED <<upVars, provVars, regVars, chunkVars, embVars>>
    \/ AudioSegmentExit /\ UNCHANGED <<upVars, provVars, regVars, chunkVars, embVars>>
    \/ AudioMapSegments /\ UNCHANGED <<upVars, provVars, regVars, chunkVars, embVars>>

SpecAudio == InitAudio /\ [][NextAudio]_vars

\* ----------------------------------------------------------------------
\* Claims about fixed-duration segmentation
\* ----------------------------------------------------------------------

CeilDiv(a, b) == (a + b - 1) \div b

AudioReturned == au.pc \in {"return", "map", "done"}

\* C17 as stated, with S = R x D (twice S is R x halves): for S >= 1 there
\* are exactly ceil(N / S) segments and segment i is [i S, min((i+1) S, N)).
C17_SegmentsOfExactProduct ==
    LET S2 == au.spec.sample_rate * au.halves
    IN  (AudioReturned /\ S2 >= 2) =>
           /\ Len(au.segments) = CeilDiv(2 * au.len, S2)
           /\ \A k \in 1..Len(au.segments) :
                 /\ 2 * au.segments[k][1] = (k - 1) * S2
                 /\ 2 * au.segments[k][2] = Min(k * S2, 2 * au.len)

\* C17, amended: with S the product R x D truncated to a whole number of
\* samples, for S >= 1 there are exactly ceil(N / S) segments and segment i
\* is [i S, min((i+1) S, N)): the first starts at 0, each starts where the
\* previous one ends, none overlap, and the last ends at N.
C17_SegmentsOfTruncatedProduct ==
    LET S == (au.spec.sample_rate * au.halves) \div 2
    IN  (AudioReturned /\ S >= 1) =>
           /\ Len(au.segments) = CeilDiv(au.len, S)
           /\ \A k \in 1..Len(au.segments) :
                 /\ au.segments[k][1] = (k - 1) * S
                 /\ au.segments[k][2] = Min(k * S, au.len)
           /\ au.len > 0 =>
                 /\ au.segments[1][1] = 0
                 /\ au.segments[Len(au.segments)][2] = au.len
           /\ \A k \in 1..(Len(au.segments) - 1) :
                 au.segments[k][2] = au.segments[k + 1][1]

\* several segments, the last one shorter than the others
C17_Witness ==
    /\ AudioReturned
    /\ au.samples_per_segment >= 2
    /\ Len(au.segments) >= 3
    /\ au.len % au.samples_per_segment # 0


\* ======================================================================
\* PdfProvider and DocumentProvider: chunk_text, then the chunks
\* ======================================================================

pdf_chunk_ == <<"p", "d", "f", "_", "c", "h", "u", "n", "k", "_">>
doc_chunk_ == <<"d", "o", "c", "_", "c", "h", "u", "n", "k", "_">>

PdfDocumentContent ==
    <<"#", " ", "P", "D", "F", " ", "D", "o", "c", "u", "m", "e",
      "n", "t", " ", "C", "o", "n", "t", "e", "n", "t", "\n", "\n">>

DocumentContent ==
    <<"#", " ", "D", "o", "c", "u", "m", "e", "n", "t", " ", "C",
      "o", "n", "t", "e", "n", "t", "\n", "\n">>

\* format!("## Section {}\n\n", i + 1)
SectionHeading(i) ==
    <<"#", "#", " ", "S", "e", "c", "t", "i", "o", "n", " ">>
    \o ToDecimal(i + 1) \o <<"\n", "\n">>

PagePrefix == <<"P", "a", "g", "e", " ", "~">>

DocumentSectionPrefix ==
    <<"D", "o", "c", "u", "m", "e", "n", "t", " ", "S", "e", "c",
      "t", "i", "o", "n", " ">>

\* the closure of PdfProvider::to_markdown_chunks' map
PdfChunk(i, content) ==
    ContentChunk(pdf_chunk_ \o ToDecimal(i),
                 (IF i = 0 THEN PdfDocumentContent ELSE SectionHeading(i))
                 \o Trim(content),
                 [chunk_index    |-> i,
                  source         |-> "pdf",
                  page_reference |-> PagePrefix \o ToDecimal(i + 1)])

\* the closure of DocumentProvider::to_markdown_chunks' map
DocChunk(i, content) ==
    ContentChunk(doc_chunk_ \o ToDecimal(i),
                 (IF i = 0 THEN DocumentContent ELSE SectionHeading(i))
                 \o Trim(content),
                 [chunk_index |-> i,
                  source      |-> "docx",
                  section     |-> DocumentSectionPrefix \o ToDecimal(i + 1)])

\* chunk_text returned to PdfProvider::to_markdown_chunks
PdfMapChunks ==
    /\ cpc = "return"
    /\ out = NoOut
    /\ out' = [format |-> "pdf",
               chunks |-> [k \in 1..Len(chunks) |-> PdfChunk(k - 1, chunks[k])]]
    /\ UNCHANGED <<chunkVars, md, js, au>>

\* chunk_text returned to DocumentProvider::to_markdown_chunks
DocMapChunks ==
    /\ cpc = "return"
    /\ out = NoOut
    /\ out' = [format |-> "docx",
               chunks |-> [k \in 1..Len(chunks) |-> DocChunk(k - 1, chunks[k])]]
    /\ UNCHANGED <<chunkVars, md, js, au>>

\* ======================================================================
\* to_markdown_chunks of every provider                     (SpecFormats)
\* ======================================================================

InitFormats ==
    /\ ProvIdle /\ RegInit /\ EmbInit /\ UpIdle
    /\ \/ ChunkIdle /\ MarkdownInit
       \/ ChunkIdle /\ JsonInit
       \/ ChunkIdle /\ AudioInit
       \/ ChunkInit /\ FmtIdle

NextFormats ==
    \/ NextMarkdown
    \/ NextJson
    \/ NextAudio
    \/ NextChunk
    \/ PdfMapChunks /\ UNCHANGED <<upVars, provVars, regVars, embVars>>
    \/ DocMapChunks /\ UNCHANGED <<upVars, provVars, regVars, embVars>>

SpecFormats == InitFormats /\ [][NextFormats]_vars


\* ----------------------------------------------------------------------
\* Claims about chunk ids
\* ----------------------------------------------------------------------

\* what the format's id pattern yields from the ordinal alone
OrdinalId(format, i) ==
    CASE format = "markdown" -> md_chunk_ \o ToDecimal(i)
      [] format = "pdf"      -> pdf_chunk_ \o ToDecimal(i)
      [] format = "docx"     -> doc_chunk_ \o ToDecimal(i)
      [] format = "audio"    -> audio_segment_ \o ToDecimal(i)
      [] format = "json"     -> json_chunk_ \o ToDecimal(i) \o <<"_">>

\* a path with '.' turned into '_' and the brackets left out
PathInId(path) ==
    LET kept == SelectSeq(path, LAMBDA c : c \notin {"[", "]"})
    IN  [k \in 1..Len(kept) |-> IF kept[k] = "." THEN "_" ELSE kept[k]]

IdsNonEmptyAndUnique ==
    /\ \A i \in 1..Len(out.chunks) : out.chunks[i].id # <<>>
    /\ \A i, j \in 1..Len(out.chunks) :
          i # j => out.chunks[i].id # out.chunks[j].id

\* C18 as stated: in every returned chunk sequence every id is non-empty and
\* unique within the result, and the id at position i is determined by the
\* format and the ordinal i alone.
C18_IdFromFormatAndOrdinal ==
    out.format # "none" =>
        /\ IdsNonEmptyAndUnique
        /\ \A i \in 1..Len(out.chunks) :
              out.chunks[i].id = OrdinalId(out.format, i - 1)

\* C18, amended: every id is non-empty and unique within the result; the id
\* at position i is the format's prefix followed by the ordinal i, and for
\* JSON that is followed by '_' and the chunk's path, '.' replaced by '_'
\* and brackets removed.
C18_IdFromFormatOrdinalAndPath ==
    out.format # "none" =>
        /\ IdsNonEmptyAndUnique
        /\ \A i \in 1..Len(out.chunks) :
              out.chunks[i].id =
                  OrdinalId(out.format, i - 1)
                  \o (IF out.format = "json"
                      THEN PathInId(out.chunks[i].metadata.path) ELSE <<>>)

\* a JSON result of several chunks, one of them at a dotted path
C18_Witness ==
    /\ out.format = "json"
    /\ Len(out.chunks) >= 3
    /\ \E i \in 1..Len(out.chunks) : Contains(out.chunks[i].metadata.path, <<".">>)


\* ======================================================================
\* EmbeddingService::global and its callers                  (SpecEmbed)
\* ======================================================================
\* A caller is a task running create_embeddings or a provider's
\* to_embeddings: `let service = EmbeddingService::global();
\* let service = service.lock().await; service.embed(..).await?`.

EmbedCallers == {"create_embeddings", "to_embeddings"}

\* the task starts
EmbedBegin(c, who) ==
    /\ caller[c].at = "idle"
    /\ caller' = [caller EXCEPT ![c] = [at |-> "global", who |-> who, ret |-> "none", handle |-> 0]]
    /\ UNCHANGED <<cell, constructed, mutex>>

\* get_or_init on the initialised cell: .clone() of the Arc
GlobalGet(c) ==
    /\ caller[c].at = "global"
    /\ cell.state = "init"
    /\ caller' = [caller EXCEPT ![c].at = "lock", ![c].handle = cell.arc]
    /\ UNCHANGED <<cell, constructed, mutex>>

\* get_or_init on the empty cell: this caller runs the closure; the others
\* block in get_or_init until it has finished
GlobalInit(c) ==
    /\ caller[c].at = "global"
    /\ cell.state = "uninit"
    /\ cell' = [cell EXCEPT !.state = "running", !.by = c, !.runs = CountRun(@)]
    /\ caller' = [caller EXCEPT ![c].at = "new"]
    /\ UNCHANGED <<constructed, mutex>>

\* EmbeddingService::new() returned Ok: the cell is set
NewOk(c) ==
    /\ caller[c].at = "new"
    /\ cell' = [cell EXCEPT !.state = "init", !.by = 0, !.arc = constructed + 1]
    /\ constructed' = constructed + 1
    /\ caller' = [caller EXCEPT ![c].at = "lock", ![c].handle = constructed + 1]
    /\ UNCHANGED mutex

\* EmbeddingService::new() returned Err: expect() panics, the cell stays empty
NewErr(c) ==
    /\ caller[c].at = "new"
    /\ cell' = [cell EXCEPT !.state = "uninit", !.by = 0]
    /\ caller' = [caller EXCEPT ![c].at = "panicked", ![c].ret = "panic"]
    /\ UNCHANGED <<constructed, mutex>>

\* tokio's Mutex: lock() gets the lock at once only if nobody holds it or
\* waits for it
LockFree_Always(m) == TRUE

LockFree(m) == m.holder = 0 /\ m.queue = <<>>

\* dropping the guard hands the lock to the first waiter
Release_Leak(m) == m

Release(m) ==
    IF m.queue = <<>> THEN [holder |-> 0, queue |-> <<>>]
    ELSE [holder |-> Head(m.queue), queue |-> Tail(m.queue)]

\* service.lock().await, the lock being free
LockAcquire(c) ==
    /\ caller[c].at = "lock"
    /\ LockFree(mutex)
    /\ mutex' = [mutex EXCEPT !.holder = c]
    /\ caller' = [caller EXCEPT ![c].at = "embed"]
    /\ UNCHANGED <<cell, constructed>>

\* service.lock().await, the lock being taken: the caller queues up
LockWait(c) ==
    /\ caller[c].at = "lock"
    /\ ~LockFree(mutex)
    /\ mutex' = [mutex EXCEPT !.queue = Append(@, c)]
    /\ caller' = [caller EXCEPT ![c].at = "waiting"]
    /\ UNCHANGED <<cell, constructed>>

\* the waiter that was handed the lock wakes up
LockGranted(c) ==
    /\ caller[c].at = "waiting"
    /\ mutex.holder = c
    /\ caller' = [caller EXCEPT ![c].at = "embed"]
    /\ UNCHANGED <<cell, constructed, mutex>>

\* service.embed(..).await ends: Ok, Err through `?`, or the panic of
\* embed; the guard is dropped on each of the three ways out
EmbedOutcomes == {"Ok", "Err", "panic"}

EmbedReturn(c, outcome) ==
    /\ caller[c].at = "embed"
    /\ mutex' = Release(mutex)
    /\ caller' = [caller EXCEPT
                    ![c].at = IF outcome = "panic" THEN "panicked" ELSE "done",
                    ![c].ret = outcome]
    /\ UNCHANGED <<cell, constructed>>

\* the task is over; its slot serves the next request
EmbedEnd(c) ==
    /\ caller[c].at \in {"done", "panicked"}
    /\ caller' = [caller EXCEPT ![c] = [at |-> "idle", who |-> "none", ret |-> "none", handle |-> 0]]
    /\ UNCHANGED <<cell, constructed, mutex>>

InitEmbed == ProvIdle /\ RegInit /\ ChunkIdle /\ FmtIdle /\ EmbInit /\ UpIdle

\* a step of a call that has begun
EmbedStep(c) ==
    /\ \/ GlobalGet(c)
       \/ GlobalInit(c)
       \/ NewOk(c)
       \/ NewErr(c)
       \/ LockAcquire(c)
       \/ LockWait(c)
       \/ LockGranted(c)
       \/ \E outcome \in EmbedOutcomes : EmbedReturn(c, outcome)
    /\ UNCHANGED <<upVars, provVars, regVars, chunkVars, fmtVars, out, embedded>>

NextEmbed ==
    \E c \in Callers :
        \/ (\E who \in EmbedCallers : EmbedBegin(c, who))
              /\ UNCHANGED <<upVars, provVars, regVars, chunkVars, fmtVars, out, embedded>>
        \/ GlobalGet(c) /\ UNCHANGED <<upVars, provVars, regVars, chunkVars, fmtVars, out, embedded>>
        \/ GlobalInit(c) /\ UNCHANGED <<upVars, provVars, regVars, chunkVars, fmtVars, out, embedded>>
        \/ NewOk(c) /\ UNCHANGED <<upVars, provVars, regVars, chunkVars, fmtVars, out, embedded>>
        \/ NewErr(c) /\ UNCHANGED <<upVars, provVars, regVars, chunkVars, fmtVars, out, embedded>>
        \/ LockAcquire(c) /\ UNCHANGED <<upVars, provVars, regVars, chunkVars, fmtVars, out, embedded>>
        \/ LockWait(c) /\ UNCHANGED <<upVars, provVars, regVars, chunkVars, fmtVars, out, embedded>>
        \/ LockGranted(c) /\ UNCHANGED <<upVars, provVars, regVars, chunkVars, fmtVars, out, embedded>>
        \/ (\E outcome \in EmbedOutcomes : EmbedReturn(c, outcome))
              /\ UNCHANGED <<upVars, provVars, regVars, chunkVars, fmtVars, out, embedded>>
        \/ EmbedEnd(c) /\ UNCHANGED <<upVars, provVars, regVars, chunkVars, fmtVars, out, embedded>>

SpecEmbed == InitEmbed /\ [][NextEmbed]_vars

\* every started call is scheduled, the constructor and every embedding
\* call finish, and the lock is handed on in queue order
SpecEmbedFair ==
    /\ InitEmbed
    /\ [][NextEmbed]_vars
    /\ \A c \in Callers : WF_vars(EmbedStep(c))


\* ----------------------------------------------------------------------
\* Claims about the shared embedding handle
\* ----------------------------------------------------------------------

Embedding == {c \in Callers : caller[c].at = "embed"}

\* C19: at every moment at most one caller is inside EmbeddingService::embed
\* through the shared handle; whoever is inside holds the handle's lock,
\* the API handler and the providers alike; and a caller whose call has
\* ended, with Ok, with an error or by a panic, no longer holds it.
C19_OneEmbedderAtATime ==
    /\ Cardinality(Embedding) <= 1
    /\ \A c \in Callers :
          /\ caller[c].at = "embed" => mutex.holder = c
          /\ caller[c].at \in {"done", "panicked", "idle"} => mutex.holder # c

\* a call ended with an error while another caller waited for the lock
C19_Witness ==
    \E c, d \in Callers :
        /\ caller[c].at = "done" /\ caller[c].ret = "Err"
        /\ caller[c].who = "create_embeddings"
        /\ caller[d].who = "to_embeddings"
        /\ caller[d].at = "waiting" /\ mutex.holder = d

Busy(c) == caller[c].at \in {"global", "new", "lock", "waiting", "embed"}

\* the next step of c's call can be taken now
CanStep(c) ==
    \/ caller[c].at = "global" /\ cell.state \in {"init", "uninit"}
    \/ caller[c].at \in {"new", "lock", "embed"}
    \/ caller[c].at = "waiting" /\ mutex.holder = c

\* some caller in the middle of its call can take a step
NoDeadlock ==
    (\E c \in Callers : Busy(c)) => \E c \in Callers : CanStep(c)

\* C20: with several tasks calling embed through the shared handle no
\* deadlock is reachable, and under fair scheduling, every embedding call
\* finishing, each caller that waits for the lock eventually gets it and
\* each caller that got it eventually completes its call.
C20_WaitersAcquireAndComplete ==
    /\ []NoDeadlock
    /\ \A c \in Callers :
          /\ (caller[c].at \in {"lock", "waiting"}) ~> (caller[c].at = "embed")
          /\ (caller[c].at = "embed") ~> (caller[c].at \in {"done", "panicked"})

\* one caller embeds while every other caller waits in the queue
C20_Witness ==
    /\ Cardinality(Embedding) = 1
    /\ Len(mutex.queue) = NumCallers - 1


\* C21: the shared embedding service is constructed at most once per
\* process: however the calls of EmbeddingService::global() interleave, the
\* constructor is run at most once and every call returns the same handle.
C21_ConstructorRunsAtMostOnce ==
    /\ cell.runs <= 1
    /\ \A c, d \in Callers :
          (caller[c].handle # 0 /\ caller[d].handle # 0) =>
              caller[c].handle = caller[d].handle


\* ======================================================================
\* A provider's to_embeddings on the chunks it returned (SpecToEmbeddings)
\* ======================================================================
\* The five to_embeddings are the same code.  Getting the handle and its
\* lock is SpecEmbed's subject; here the call is one step, from the chunks
\* to the vectors.

\* chunks.iter().map(|c| c.content.clone()).collect()
ChunkTexts(chunks_) == [i \in 1..Len(chunks_) |-> chunks_[i].content]

\* the vector the embedder computes for the text at position i (from 0)
VectorFor(i, text) == [input |-> i, of |-> text]

\* self.embedder.embed(&text_refs, None, None): the external capability,
\* one result per input and in the order of the inputs
TextEmbedder_embed(texts) ==
    [i \in 1..Len(texts) |->
        [kind |-> "DenseVector", vec |-> VectorFor(i - 1, texts[i])]]

\* EmbeddingService::embed: the `data` of the response (model and usage
\* left out); Err when the embedder fails, a panic on a result that is not
\* a dense vector
EmbeddingService_embed(texts, outcome) ==
    IF outcome # "Ok" THEN Err(outcome)
    ELSE LET embeddings == TextEmbedder_embed(texts)
         IN  Ok([object |-> "list",
                 data |-> [i \in 1..Len(embeddings) |->
                              [object    |-> "embedding",
                               embedding |-> embeddings[i].vec,
                               index     |-> i - 1]]])

\* response.data.into_iter().map(|d| d.embedding).collect()
ResponseEmbeddings_Reversed(response) ==
    [i \in 1..Len(response.data) |->
        response.data[Len(response.data) + 1 - i].embedding]

ResponseEmbeddings(response) ==
    [i \in 1..Len(response.data) |-> response.data[i].embedding]

to_embeddings(chunks_, outcome) ==
    LET response == EmbeddingService_embed(ChunkTexts(chunks_), outcome)
    IN  IF response.ok THEN Ok(ResponseEmbeddings(response.v)) ELSE response

\* provider.to_embeddings(&result.chunks) on the chunks just returned
ProviderToEmbeddings ==
    /\ out.format # "none"
    /\ embedded = NotEmbedded
    /\ \E outcome \in EmbedOutcomes :
          embedded' = to_embeddings(out.chunks, outcome)
    /\ UNCHANGED <<upVars, provVars, regVars, chunkVars, fmtVars, out,
                   cell, constructed, mutex, caller>>

NextToEmbeddings ==
    \/ NextFormats
    \/ ProviderToEmbeddings

SpecToEmbeddings == InitFormats /\ [][NextToEmbeddings]_vars

\* C22: to_embeddings hands the chunks' contents to the embedding service in
\* chunk order and returns exactly one vector per chunk, the i-th vector
\* being the one the service computed for the i-th chunk's content.
C22_OneVectorPerChunkInOrder ==
    embedded.ok =>
        /\ Len(embedded.v) = Len(out.chunks)
        /\ \A i \in 1..Len(out.chunks) :
              embedded.v[i] = VectorFor(i - 1, out.chunks[i].content)

\* vectors came back for three chunks of different contents
C22_Witness ==
    /\ embedded.ok
    /\ Len(out.chunks) >= 3
    /\ out.chunks[1].content # out.chunks[3].content


(***************************************************************************)
(* Extraction beside the embedding service.  The provider operations of    *)
(* Spec run while the embedding service is in one of the states the        *)
(* callers of EmbeddingService::global bring it to: never asked for, its   *)
(* construction failed (the caller panicked in expect, the cell is empty), *)
(* or constructed and locked by a caller inside embed.  No                 *)
(* process_content, to_markdown_chunks or to_metadata of providers/*.rs    *)
(* names EmbeddingService; only to_embeddings does.                        *)
(***************************************************************************)
IdleCaller == [at |-> "idle", who |-> "none", ret |-> "none", handle |-> 0]

\* EmbeddingService::new() failed for caller 1 (state after NewErr)
EmbFailing ==
    /\ cell = [state |-> "uninit", by |-> 0, arc |-> 0, runs |-> 1]
    /\ constructed = 0
    /\ mutex = [holder |-> 0, queue |-> <<>>]
    /\ caller = [c \in Callers |->
                   IF c = 1 THEN [at |-> "panicked", who |-> "to_embeddings",
                                  ret |-> "panic", handle |-> 0]
                   ELSE IdleCaller]
    /\ embedded = NotEmbedded

\* caller 1 holds the lock and is inside embed (state after NewOk, LockAcquire)
EmbBusy ==
    /\ cell = [state |-> "init", by |-> 0, arc |-> 1, runs |-> 1]
    /\ constructed = 1
    /\ mutex = [holder |-> 1, queue |-> <<>>]
    /\ caller = [c \in Callers |->
                   IF c = 1 THEN [at |-> "embed", who |-> "to_embeddings",
                                  ret |-> "none", handle |-> 1]
                   ELSE IdleCaller]
    /\ embedded = NotEmbedded

InitIndependence ==
    /\ ProvInit /\ RegInit /\ ChunkIdle /\ FmtIdle /\ UpIdle
    /\ EmbInit \/ EmbFailing \/ EmbBusy

NextIndependence == Next

SpecIndependence == InitIndependence /\ [][NextIndependence]_vars

\* a step of a provider operation: a call, a sub-operation or the return
ProviderStep == tpc' # tpc \/ log' # log \/ ret' # ret

\* every logged sub-operation returned what the file alone determines
OutcomeFromFileOnly ==
    \A t \in Tasks : \A i \in 1..Len(log[t]) :
        log[t][i].out =
            IF log[t][i].operation = "to_markdown_chunks"
            THEN to_markdown_chunks(call[t].provider, log[t][i].file)
            ELSE to_metadata(call[t].provider, log[t][i].file, call[t].path)

\* C23: no step of process_content, to_markdown_chunks or to_metadata
\* acquires the embedding handle, constructs the service or calls embed (the
\* cell, the constructor count, the mutex and every embedding caller are left
\* as they were), and what each sub-operation returns is determined by the
\* file alone, whatever state the embedding service is in.
C23_ExtractionIndependentOfEmbedding ==
    /\ []OutcomeFromFileOnly
    /\ [][ProviderStep => UNCHANGED embVars]_vars

\* C23 witness: process_content has succeeded while another task holds the
\* embedding lock inside embed.
C23_Witness ==
    \E t \in Tasks :
        /\ Returned(t, "process_content") /\ ret[t].ok
        /\ mutex.holder # 0


(***************************************************************************)
(* api/content.rs: the upload handlers process_file (provider chosen by    *)
(* the extension of the uploaded file's name) and process_file_with_type   *)
(* (provider chosen by the content type in the URL).  Both stage the       *)
(* upload at /tmp/{file_name}, run process_content on that path and        *)
(* remove the file.  Every .await is a point where another request runs.   *)
(* The registry is the built REGISTRY: a lookup blocks until it is.        *)
(***************************************************************************)
\* char::to_uppercase on the characters the inputs are made of
char_to_uppercase(c) ==
    IF \E i \in 1..26 : LowerAlphabet[i] = c
    THEN UpperAlphabet[CHOOSE i \in 1..26 : LowerAlphabet[i] = c]
    ELSE c

to_uppercase(s) == [i \in 1..Len(s) |-> char_to_uppercase(s[i])]

\* #[serde(rename_all = "UPPERCASE")] on ContentType
SerdeNames ==
    { [name |-> <<"P", "D", "F">>, variant |-> "Pdf"],
      [name |-> <<"A", "U", "D", "I", "O">>, variant |-> "Audio"],
      [name |-> <<"V", "I", "D", "E", "O">>, variant |-> "Video"],
      [name |-> <<"I", "M", "A", "G", "E">>, variant |-> "Image"],
      [name |-> <<"T", "E", "X", "T">>, variant |-> "Text"],
      [name |-> <<"M", "A", "R", "K", "D", "O", "W", "N">>, variant |-> "Markdown"],
      [name |-> <<"S", "T", "R", "U", "C", "T", "U", "R", "E", "D", "D", "A", "T", "A">>, variant |-> "StructuredData"],
      [name |-> <<"D", "O", "C", "U", "M", "E", "N", "T">>, variant |-> "Document"],
      [name |-> <<"S", "P", "R", "E", "A", "D", "S", "H", "E", "E", "T">>, variant |-> "Spreadsheet"],
      [name |-> <<"P", "R", "E", "S", "E", "N", "T", "A", "T", "I", "O", "N">>, variant |-> "Presentation"],
      [name |-> <<"A", "R", "C", "H", "I", "V", "E">>, variant |-> "Archive"],
      [name |-> <<"C", "O", "D", "E">>, variant |-> "Code"],
      [name |-> <<"E", "M", "A", "I", "L">>, variant |-> "Email"],
      [name |-> <<"W", "E", "B">>, variant |-> "Web"],
      [name |-> <<"U", "N", "K", "N", "O", "W", "N">>, variant |-> "Unknown"] }

\* serde_json::from_str(&format!("\"{}\"", content_type.to_uppercase()))
ParseContentType(content_type) ==
    LET upper == to_uppercase(content_type)
    IN  IF \E e \in SerdeNames : e.name = upper
        THEN Ok((CHOOSE e \in SerdeNames : e.name = upper).variant)
        ELSE Err("serde: unknown variant")

\* REGISTRY once the Lazy closure has run
BuiltRegistry ==
    [content_type \in RegisteredTypes |->
        (CHOOSE i \in 1..Len(RegistryEntries) :
            RegistryEntries[i].content_type = content_type)]

\* registry::get_provider on the built registry
registry_get_provider(content_type) ==
    LET found == HashMapGet(BuiltRegistry, content_type)
    IN  IF found.some THEN Some(RegistryEntries[found.v].provider) ELSE None

\* registry::get_provider_by_extension on the built registry
registry_get_provider_by_extension(extension) ==
    LET content_type == ExtensionMatch(to_lowercase(extension))
    IN  IF content_type.some
        THEN ByExtensionResult(content_type.v, registry_get_provider(content_type.v))
        ELSE None

\* position of the last '.' of a name, 0 if it has none
LastDot(file_name) ==
    IF \E i \in 1..Len(file_name) : file_name[i] = "."
    THEN CHOOSE i \in 1..Len(file_name) :
            /\ file_name[i] = "."
            /\ \A j \in (i + 1)..Len(file_name) : file_name[j] # "."
    ELSE 0

\* Path::new(&file_name).extension().and_then(|ext| ext.to_str()) for a name
\* of one component: what follows the last dot, none if there is no dot or
\* the name begins with its only dot
Extension(file_name) ==
    IF LastDot(file_name) <= 1 THEN None
    ELSE Some(SubSeq(file_name, LastDot(file_name) + 1, Len(file_name)))

\* format!("/tmp/{}", file_name)
TempPath(file_name) == <<"/", "t", "m", "p", "/">> \o file_name

\* what an upload's bytes are to a provider (FileKinds); the one registered
\* type among UrlTypes is Markdown, to which every text is well formed
UploadKinds == {"garbage", "text"}

\* the file File::create leaves: no bytes, which is UTF-8 text and a
\* well-formed document of no structured format
EmptyFile == "empty"

FileKindOf(content) == IF content = EmptyFile THEN "text" ELSE content

\* the content-type segments of the URL of process_file_with_type
UrlTypes == { <<"m", "a", "r", "k", "d", "o", "w", "n">>, <<"v", "i", "d", "e", "o">>,
              <<"d", "o", "c", "s">> }

Handlers == {"process_file", "process_file_with_type"}

\* the handler returns
Return(u, result) == [u EXCEPT !.pc = "returned", !.result = result]

\* a request arrives
UploadBegin(r, handler, file_field, file_name, content_type, bytes) ==
    /\ upload[r].pc = "idle"
    /\ upload' = [upload EXCEPT ![r] =
                    [pc |-> "lookup", handler |-> handler, file_field |-> file_field,
                     file_name |-> file_name, content_type |-> content_type,
                     bytes |-> bytes, provider |-> "none", name |-> <<>>,
                     created |-> FALSE, linked |-> FALSE, read |-> <<>>,
                     chunks |-> Pending, result |-> Pending]]
    /\ UNCHANGED staging

\* process_file up to `let temp_path` (lines 21-35)
process_file_lookup(u) ==
    LET extension == Extension(u.file_name.v)
        found == registry_get_provider_by_extension(extension.v)
    IN  IF ~u.file_field THEN Return(u, Err("No file provided"))
        ELSE IF ~u.file_name.some THEN Return(u, Err("No filename provided"))
        ELSE IF ~extension.some THEN Return(u, Err("No file extension"))
        ELSE IF ~found.some THEN Return(u, Err("Unsupported file type"))
        ELSE [u EXCEPT !.pc = "create", !.provider = found.v.provider,
                       !.name = u.file_name.v]

\* process_file_with_type up to `let temp_path` (lines 57-67)
process_file_with_type_lookup(u) ==
    LET content_type == ParseContentType(u.content_type)
        provider == registry_get_provider(content_type.v)
    IN  IF ~content_type.ok THEN Return(u, content_type)
        ELSE IF ~provider.some THEN Return(u, Err("Unsupported content type"))
        ELSE IF ~u.file_field THEN Return(u, Err("No file provided"))
        ELSE [u EXCEPT !.pc = "create", !.provider = provider.v,
                       !.name = IF u.file_name.some THEN u.file_name.v
                                ELSE DefaultFileName]

\* A handler that creates the staging file before it looks the provider up
UploadLookup_AfterCreate(r) ==
    /\ upload[r].pc = "lookup"
    /\ LET u == upload[r]
           after == IF u.handler = "process_file" THEN process_file_lookup(u)
                    ELSE process_file_with_type_lookup(u)
           name == IF u.file_name.some THEN u.file_name.v ELSE DefaultFileName
       IN  /\ upload' = [upload EXCEPT ![r] = [after EXCEPT !.created = TRUE, !.linked = TRUE]]
           /\ staging' = [staging EXCEPT ![name] = EmptyFile]

\* the handler from its start to the registry lookup and the staging path;
\* nothing on disk is touched
UploadLookup(r) ==
    /\ upload[r].pc = "lookup"
    /\ upload' = [upload EXCEPT ![r] =
                    IF upload[r].handler = "process_file"
                    THEN process_file_lookup(upload[r])
                    ELSE process_file_with_type_lookup(upload[r])]
    /\ UNCHANGED staging

IoOutcomes == {"Ok", "Err"}

\* fs::File::create(&temp_path).await?: creates the file or truncates the
\* one that is there (the same file for every request that has it open)
UploadCreate(r, outcome) ==
    /\ upload[r].pc = "create"
    /\ IF outcome = "Ok"
       THEN /\ staging' = [staging EXCEPT ![upload[r].name] = EmptyFile]
            /\ upload' = [upload EXCEPT ![r].pc = "bytes", ![r].created = TRUE,
                                        ![r].linked = TRUE]
       ELSE /\ upload' = [upload EXCEPT ![r] = Return(@, Err("io: create"))]
            /\ UNCHANGED staging

\* field.bytes().await?: the body of the upload arrives or the read fails
UploadBytes(r, outcome) ==
    /\ upload[r].pc = "bytes"
    /\ upload' = [upload EXCEPT ![r] =
                    IF outcome = "Ok" THEN [@ EXCEPT !.pc = "write"]
                    ELSE Return(@, Err("multipart: read"))]
    /\ UNCHANGED staging

\* file.write_all(&bytes).await?; file.flush().await?: the bytes go to the
\* file this request opened, which is the file at the path unless the path
\* was removed since.  Uploads written to one file replace each other.
UploadWrite(r, outcome) ==
    /\ upload[r].pc = "write"
    /\ IF outcome = "Ok"
       THEN /\ staging' = IF upload[r].linked
                          THEN [staging EXCEPT ![upload[r].name] = upload[r].bytes]
                          ELSE staging
            /\ upload' = [upload EXCEPT ![r].pc = "chunks"]
       ELSE /\ upload' = [upload EXCEPT ![r] = Return(@, Err("io: write"))]
            /\ UNCHANGED staging

\* provider.process_content(path): to_markdown_chunks(file_path).await?
UploadRunChunks(r) ==
    /\ upload[r].pc = "chunks"
    /\ LET u == upload[r]
           content == staging[u.name]
           c == to_markdown_chunks(u.provider, FileKindOf(content))
           seen == [u EXCEPT !.read = Append(@, content)]
       IN  upload' = [upload EXCEPT ![r] =
                        IF c.ok THEN [seen EXCEPT !.pc = "metadata", !.chunks = c]
                        ELSE Return(seen, c)]
    /\ UNCHANGED staging

\* provider.process_content(path): to_metadata(file_path).await? and the
\* result; the `?` of the handler returns an error at once
UploadRunMetadata(r) ==
    /\ upload[r].pc = "metadata"
    /\ LET u == upload[r]
           content == staging[u.name]
           m == to_metadata(u.provider, FileKindOf(content), TempPath(u.name))
           seen == [u EXCEPT !.read = Append(@, content)]
       IN  upload' = [upload EXCEPT ![r] =
                        IF m.ok
                        THEN [seen EXCEPT !.pc = "remove",
                                          !.result = process_content_return(u.chunks, m)]
                        ELSE Return(seen, m)]
    /\ UNCHANGED staging

\* A handler that leaves the staging file where it is
UnlinkPath_Keep(files, name) == files

\* fs::remove_file(&temp_path).await.ok(): the path is gone, whoever made it
UnlinkPath(files, name) == [files EXCEPT ![name] = Absent]

\* fs::remove_file and return Ok(Json(result)); a request that has the file
\* open keeps its file, which is at no path any more
UploadRemove(r) ==
    /\ upload[r].pc = "remove"
    /\ staging' = UnlinkPath(staging, upload[r].name)
    /\ upload' = [q \in Requests |->
                    IF q = r THEN [upload[r] EXCEPT !.pc = "returned", !.linked = FALSE]
                    ELSE IF upload[q].pc \notin {"idle", "lookup", "returned"}
                            /\ upload[q].name = upload[r].name
                         THEN [upload[q] EXCEPT !.linked = FALSE]
                         ELSE upload[q]]

\* the response is sent; the request slot serves the next request
UploadEnd(r) ==
    /\ upload[r].pc = "returned"
    /\ upload' = [upload EXCEPT ![r] = NoRequest]
    /\ UNCHANGED staging

InitUpload == ProvIdle /\ RegInit /\ ChunkIdle /\ FmtIdle /\ EmbInit /\ UpIdle

UploadInputs ==
    {[file_field |-> TRUE, file_name |-> Some(n), bytes |-> b] :
        n \in FileNames, b \in UploadKinds}
    \cup {[file_field |-> TRUE, file_name |-> None, bytes |-> "text"],
          [file_field |-> FALSE, file_name |-> None, bytes |-> "text"]}

\* the requests to process_file_with_type: every upload for a registered
\* type, one request for each other type
TypedInputs ==
    {[content_type |-> t, input |-> i] : t \in UrlTypes, i \in UploadInputs}
    \ {x \in [content_type : UrlTypes, input : UploadInputs] :
          /\ ParseContentType(x.content_type) \notin {Ok(t) : t \in RegisteredTypes}
          /\ x.input.file_field}

NextUpload ==
    \/ \E r \in Requests, i \in UploadInputs :
          UploadBegin(r, "process_file", i.file_field, i.file_name, <<>>, i.bytes)
             /\ UNCHANGED <<provVars, regVars, chunkVars, fmtVars, out, embVars>>
    \/ \E r \in Requests, x \in TypedInputs :
          UploadBegin(r, "process_file_with_type", x.input.file_field, x.input.file_name,
                      x.content_type, x.input.bytes)
             /\ UNCHANGED <<provVars, regVars, chunkVars, fmtVars, out, embVars>>
    \/ \E r \in Requests : UploadLookup(r)
             /\ UNCHANGED <<provVars, regVars, chunkVars, fmtVars, out, embVars>>
    \/ \E r \in Requests, outcome \in IoOutcomes : UploadCreate(r, outcome)
             /\ UNCHANGED <<provVars, regVars, chunkVars, fmtVars, out, embVars>>
    \/ \E r \in Requests, outcome \in IoOutcomes : UploadBytes(r, outcome)
             /\ UNCHANGED <<provVars, regVars, chunkVars, fmtVars, out, embVars>>
    \/ \E r \in Requests, outcome \in IoOutcomes : UploadWrite(r, outcome)
             /\ UNCHANGED <<provVars, regVars, chunkVars, fmtVars, out, embVars>>
    \/ \E r \in Requests : UploadRunChunks(r)
             /\ UNCHANGED <<provVars, regVars, chunkVars, fmtVars, out, embVars>>
    \/ \E r \in Requests : UploadRunMetadata(r)
             /\ UNCHANGED <<provVars, regVars, chunkVars, fmtVars, out, embVars>>
    \/ \E r \in Requests : UploadRemove(r)
             /\ UNCHANGED <<provVars, regVars, chunkVars, fmtVars, out, embVars>>
    \/ \E r \in Requests : UploadEnd(r)
             /\ UNCHANGED <<provVars, regVars, chunkVars, fmtVars, out, embVars>>

SpecUpload == InitUpload /\ [][NextUpload]_vars


\* the registry lookup of the request came back empty
LookupEmpty(u) ==
    u.result \in {Err("Unsupported file type"), Err("Unsupported content type")}

\* C24: in both upload handlers an unsupported extension or content type is
\* found by the registry lookup before any file is created, written or
\* read: a request whose lookup was empty has created no staging file and
\* run no provider operation, and the step that returns from the lookup
\* leaves the staging directory as it was.
C24_UnsupportedBeforeAnyFileIO ==
    /\ [](\A r \in Requests :
            (upload[r].pc = "returned" /\ LookupEmpty(upload[r])) =>
                /\ ~upload[r].created
                /\ upload[r].read = <<>>
                /\ upload[r].chunks = Pending)
    /\ [][\A r \in Requests :
            (upload[r].pc = "lookup" /\ upload'[r].pc = "returned") =>
                staging' = staging]_vars

\* C24 witness: both handlers have returned from an empty lookup, one for
\* the extension xyz and one for the content type video
C24_Witness ==
    \E r, q \in Requests :
        /\ upload[r].pc = "returned" /\ upload[r].handler = "process_file"
        /\ upload[r].result = Err("Unsupported file type")
        /\ upload[q].pc = "returned" /\ upload[q].handler = "process_file_with_type"
        /\ upload[q].result = Err("Unsupported content type")

\* C25: for any interleaving of two upload requests, also with the same
\* file name, each request's provider reads exactly the bytes that request
\* staged.
C25_RequestsReadWhatTheyStaged ==
    \A r \in Requests :
        upload[r].pc \notin {"idle", "lookup"} =>
            \A i \in 1..Len(upload[r].read) : upload[r].read[i] = upload[r].bytes

\* the other requests are not using the staging path of request r
AloneAt(r) ==
    \A q \in Requests \ {r} :
        upload[q].pc \in {"idle", "lookup"} \/ upload[q].name # upload[r].name \/
        (upload[q].pc = "returned" /\ ~upload[q].created)

\* C30: on every path through the upload handlers that created a staging
\* file, the file has been removed by the time the handler returns, on
\* success and on failure of a step after the creation.
C30_StagingFileRemovedAtReturn ==
    \A r \in Requests :
        (upload[r].pc = "returned" /\ upload[r].created /\ AloneAt(r)) =>
            staging[upload[r].name] = Absent


(***************************************************************************)
(* MarkdownProvider::to_metadata (providers/markdown.rs 129-149): the      *)
(* title is taken from the text, not from the parser:                      *)
(*     let title = lines.iter().find(|line| line.starts_with('#'))         *)
(*         .map(|line| line.trim_start_matches('#').trim().to_string());   *)
(* The other providers set title: None and every other optional field but  *)
(* file_name and file_size to None.                                        *)
(***************************************************************************)
RECURSIVE Lines(_)
\* str::lines on text whose line ends are "\n"
Lines(s) ==
    IF s = <<>> THEN <<>>
    ELSE IF \E i \in 1..Len(s) : s[i] = "\n"
         THEN LET i == CHOOSE i \in 1..Len(s) :
                          s[i] = "\n" /\ \A j \in 1..(i - 1) : s[j] # "\n"
              IN  <<SubSeq(s, 1, i - 1)>> \o Lines(SubSeq(s, i + 1, Len(s)))
         ELSE <<s>>

RECURSIVE TrimStartMatches(_, _)
\* str::trim_start_matches(c)
TrimStartMatches(s, c) ==
    IF s # <<>> /\ Head(s) = c THEN TrimStartMatches(Tail(s), c) ELSE s

\* line.starts_with('#')
StartsWithHash(line) == line # <<>> /\ Head(line) = "#"

\* the title of to_metadata
MarkdownTitle(content) ==
    LET lines == Lines(content)
        found == {i \in 1..Len(lines) : StartsWithHash(lines[i])}
        first == CHOOSE i \in found : \A j \in found : i <= j
    IN  IF found = {} THEN None
        ELSE Some(Trim(TrimStartMatches(lines[first], "#")))

\* the ContentMetadata of MarkdownProvider::to_metadata, title included
MarkdownMetadata(content, path) ==
    ContentMetadata("Markdown", path) @@ [title |-> MarkdownTitle(content)]

\* the path the Markdown file was read from
MarkdownPath == <<"a", ".", "m", "d">>

\* process_content: to_metadata after to_markdown_chunks returned
MarkdownToMetadata ==
    /\ md.pc = "done"
    /\ md' = [pc |-> "metadata", doc |-> md.doc, markdown |-> md.markdown,
              sections |-> md.sections,
              metadata |-> MarkdownMetadata(md.markdown, MarkdownPath)]
    /\ UNCHANGED <<js, au, out>>

NextMarkdownMetadata ==
    \/ NextMarkdown
    \/ MarkdownToMetadata /\ UNCHANGED <<upVars, provVars, regVars, chunkVars, embVars>>

SpecMarkdownMetadata == InitMarkdown /\ [][NextMarkdownMetadata]_vars

\* C26: a field the format cannot determine is absent, never present with an
\* empty-string placeholder: the Markdown title is present only when the
\* document has a heading with a non-empty title, and is never Some("").
C26_TitleOnlyFromNonEmptyHeading ==
    md.pc = "metadata" =>
        LET title == md.metadata.title
        IN  /\ title # Some(<<>>)
            /\ title.some =>
                  \E i \in 1..Len(Headings(md.doc)) :
                      HeadingText(Headings(md.doc)[i].inl) # <<>>
            /\ \A field \in {"created_at", "modified_at", "author", "language"} :
                  md.metadata[field] = None


\* ----------------------------------------------------------------------
\* The content of a Markdown chunk
\* ----------------------------------------------------------------------
\* one parser event, the body of a section starting empty after its heading
OnEventBody(st, e) ==
    IF e.ev = "End(Heading)" THEN [st EXCEPT !.current_content = <<>>]
    ELSE OnEvent(st, e)

RECURSIVE ForEachEventBody(_, _)
ForEachEventBody(st, events) ==
    IF events = <<>> THEN st
    ELSE ForEachEventBody(OnEventBody(st, Head(events)), Tail(events))

\* the sections with a title, each with the body accumulated after its heading
TitledBodies(events) ==
    LET st == ForEachEventBody(ExtractStart, events)
    IN  IF st.current_section # <<>>
        THEN Append(st.sections, Section(st.current_section,
                                         Trim(st.current_content),
                                         st.current_level))
        ELSE st.sections

\* the chunks of the sections that have a title
TitledChunks == SelectSeq(out.chunks, LAMBDA c : c.metadata.section_title # <<>>)

\* no section was found and the whole document became the section "Document"
WholeDocument == md.sections = <<Section(DocumentTitle, md.markdown, 1)>>

\* C27: for every Markdown section with a non-empty title the chunk's content
\* is exactly the heading marker ('#' repeated level times), the title and
\* then the section body accumulated after the heading; the title appears
\* once, as the heading line, and is not repeated in the body.
C27_HeadingTitleThenBody ==
    (md.pc = "done" /\ ~WholeDocument) =>
        LET bodies == TitledBodies(Events(md.doc))
        IN  /\ Len(TitledChunks) = Len(bodies)
            /\ \A k \in 1..Len(bodies) :
                  TitledChunks[k].content =
                      Repeat("#", bodies[k].level) \o <<" ">> \o bodies[k].title
                      \o <<"\n", "\n">> \o bodies[k].content


\* ----------------------------------------------------------------------
\* Termination of chunk_text
\* ----------------------------------------------------------------------
\* chunk_text runs on: a call that can take a step takes it
SpecChunkFair == InitChunk /\ [][NextChunk]_vars /\ WF_vars(NextChunk)

\* C28: chunk_text terminates for every text and every chunk_size > overlap
\* >= 0: it returns, on every iteration that does not end the loop the window
\* start grows by chunk_size - overlap, which is at least 1, and there are
\* never more chunks than characters.
C28_ChunkTextTerminates ==
    /\ <>(cpc = "return")
    /\ [](Len(chunks) <= Len(chars))
    /\ [][(cpc = "while" /\ cpc' = "while") =>
            /\ start' = start + (chunk_size - overlap)
            /\ start' > start
            /\ Len(chunks') = Len(chunks) + 1]_vars

\* C28 witness: chunk_text has returned after four or more iterations that
\* each moved the window by one character.
C28_Witness ==
    /\ cpc = "return"
    /\ chunk_size - overlap = 1
    /\ Len(chunks) >= 4


\* ----------------------------------------------------------------------
\* Termination of segment_audio
\* ----------------------------------------------------------------------
\* segment_audio runs on: a call that can take a step takes it
SpecAudioFair == InitAudio /\ [][NextAudio]_vars /\ WF_vars(NextAudio)

\* C29: segment_audio terminates with a finite segment list for every sample
\* sequence, sample rate and segment duration, rate x duration truncating
\* to 0 included: the loop is left, every iteration moves the start forward
\* and there are never more segments than samples.
C29_SegmentAudioTerminates ==
    /\ <>(au.pc # "while")
    /\ [](Len(au.segments) <= au.len)
    /\ [][(au.pc = "while" /\ au'.pc = "while" /\ au' # au) =>
            au'.start > au.start]_vars

====
